---- MODULE Spec2Model ----
(***************************************************************************)
(* Model of the is-perf-client load generator: the partitioning loops,    *)
(* the worker pool of the role-creation, user-creation and retry phases,  *)
(* the statistics aggregator, the result channel and the failed-users     *)
(* ledger.                                                                 *)
(*                                                                         *)
(* Strings are sequences of one-character strings, so that formatting     *)
(* (Sprintf "%d") and parsing (Atoi, Split) are computed, not assumed.    *)
(***************************************************************************)
EXTENDS Integers, Sequences, FiniteSets, TLC

\* ------------------------------------------------------------------ bounds
MaxThreads == 2
MaxOps == 2
MaxLedger == 2
MaxTotal == 10
MaxWorkers == 4

\* ------------------------------------------------------- integer arithmetic
\* Go's / and % truncate toward zero.
GoDiv(a, b) ==
  IF (a >= 0) = (b > 0) THEN (IF a >= 0 THEN a ELSE -a) \div (IF b > 0 THEN b ELSE -b)
  ELSE -((IF a >= 0 THEN a ELSE -a) \div (IF b > 0 THEN b ELSE -b))

GoMod(a, b) == a - b * GoDiv(a, b)

\* ------------------------------------------------------------------ strings
Digits == <<"0", "1", "2", "3", "4", "5", "6", "7", "8", "9">>

RECURSIVE ItoaNat(_)
ItoaNat(n) ==
  IF n < 10 THEN <<Digits[n + 1]>>
  ELSE ItoaNat(n \div 10) \o <<Digits[(n % 10) + 1]>>

\* fmt.Sprintf("%d", n)
Itoa(n) == IF n < 0 THEN <<"-">> \o ItoaNat(-n) ELSE ItoaNat(n)

DigitVal(c) == CHOOSE d \in 0..9 : Digits[d + 1] = c

IsDigit(c) == \E d \in 1..10 : Digits[d] = c

RECURSIVE AtoiNat(_)
AtoiNat(s) ==
  IF Len(s) = 0 THEN 0
  ELSE 10 * AtoiNat(SubSeq(s, 1, Len(s) - 1)) + DigitVal(s[Len(s)])

\* strconv.Atoi: an optional sign, then one or more decimal digits.
Atoi(s) ==
  LET signed == Len(s) > 0 /\ s[1] \in {"+", "-"}
      body   == IF signed THEN SubSeq(s, 2, Len(s)) ELSE s
  IN  IF Len(body) = 0 \/ \E i \in 1..Len(body) : ~IsDigit(body[i])
      THEN [ok |-> FALSE, val |-> 0]
      ELSE [ok |-> TRUE,
            val |-> IF signed /\ s[1] = "-" THEN -AtoiNat(body) ELSE AtoiNat(body)]

\* The last element of strings.Split(s, sep) and the number of parts.
RECURSIVE LastSepIndex(_, _, _)
LastSepIndex(s, sep, i) ==
  IF i = 0 THEN 0
  ELSE IF s[i] = sep THEN i
  ELSE LastSepIndex(s, sep, i - 1)

SplitCount(s, sep) == 1 + Cardinality({i \in 1..Len(s) : s[i] = sep})

SplitLast(s, sep) == SubSeq(s, LastSepIndex(s, sep, Len(s)) + 1, Len(s))

\* ------------------------------------------------------------- partitioning
\* threadTenants of ExecuteRoleCreation, threadUsers of ExecuteRetryFailed.
ThreadShare_LastGetsExtra(perThread, remaining, threadID) ==
  IF threadID >= remaining /\ remaining > 0 THEN perThread + 1 ELSE perThread

ThreadShare(perThread, remaining, threadID) ==
  IF threadID < remaining THEN perThread + 1 ELSE perThread

\* The end of a range that starts at start and holds size units.
RangeEnd_OffByOne(start, size) == start + size

RangeEnd(start, size) == start + size - 1

\* The loop of ExecuteRoleCreation: one entry per threadID, in order; spawn
\* says whether the iteration starts a worker.
RECURSIVE RoleCreationLoop(_, _, _, _, _)
RoleCreationLoop(totalTenants, threads, threadID, tenantStart, acc) ==
  IF ~(threadID < threads) THEN acc
  ELSE
    LET tenantsPerThread == GoDiv(totalTenants, threads)
        remainingTenants == GoMod(totalTenants, threads)
        threadTenants    == ThreadShare(tenantsPerThread, remainingTenants, threadID)
        tenantEnd        == RangeEnd(tenantStart, threadTenants)
    IN  RoleCreationLoop(totalTenants, threads, threadID + 1, tenantEnd + 1,
          Append(acc, [ThreadID |-> threadID, Start |-> tenantStart,
                       End |-> tenantEnd, spawn |-> threadTenants > 0]))

RoleRanges(totalTenants, threads, tenantStartNumber) ==
  RoleCreationLoop(totalTenants, threads, 0, tenantStartNumber, <<>>)

\* The task-building loop of ExecuteUserCreation: the remainder is handed out
\* by decrementing remainingUsers; every threadID gets a task.
RECURSIVE UserCreationLoop(_, _, _, _, _, _)
UserCreationLoop(usersPerThread, threads, threadID, userStart, remainingUsers, acc) ==
  IF ~(threadID < threads) THEN acc
  ELSE
    LET threadUsers == IF remainingUsers > 0 THEN usersPerThread + 1 ELSE usersPerThread
        left        == IF remainingUsers > 0 THEN remainingUsers - 1 ELSE remainingUsers
        userEnd     == RangeEnd(userStart, threadUsers)
    IN  UserCreationLoop(usersPerThread, threads, threadID + 1, userEnd + 1, left,
          Append(acc, [ThreadID |-> threadID, Start |-> userStart,
                       End |-> userEnd, spawn |-> TRUE]))

UserTasks(noOfUsers, threads, userStartNumber) ==
  UserCreationLoop(GoDiv(noOfUsers, threads), threads, 0, userStartNumber,
                   GoMod(noOfUsers, threads), <<>>)

\* The task-building loop of ExecuteRetryFailed over list positions 0..n-1:
\* a task is appended, and userStart advanced, only when threadUsers > 0.
RECURSIVE RetryLoop(_, _, _, _, _)
RetryLoop(n, threads, threadID, userStart, acc) ==
  IF ~(threadID < threads) THEN acc
  ELSE
    LET usersPerThread == GoDiv(n, threads)
        remainingUsers == GoMod(n, threads)
        threadUsers    == ThreadShare(usersPerThread, remainingUsers, threadID)
        userEnd        == RangeEnd(userStart, threadUsers)
    IN  IF threadUsers > 0
        THEN RetryLoop(n, threads, threadID + 1, userEnd + 1,
               Append(acc, [ThreadID |-> threadID, Start |-> userStart,
                            End |-> userEnd, spawn |-> TRUE]))
        ELSE RetryLoop(n, threads, threadID + 1, userStart, acc)

RetryTasks_FromOne(n, threads) == RetryLoop(n, threads, 0, 1, <<>>)

RetryTasks(n, threads) == RetryLoop(n, threads, 0, 0, <<>>)

\* ------------------------------------------------------------------- state
VARIABLES
  config,       \* the loaded Config (Execution and Test parts)
  retryFailed,  \* the -retry-failed flag of main
  pc,           \* where the main goroutine is
  ledgerFile,   \* failedUsers.csv on disk
  scimFile,     \* scimIDs.csv on disk
  csvWriter,    \* TestExecutor.csvWriter
  fw,           \* TestExecutor.failedUsersWriter, with the rows the file held
                \* when the writer was opened
  fwMutex,      \* FailedUsersCSVWriter.mutex: its holder
  stats,        \* TestExecutor.stats, the six counters
  statsMutex,   \* TestStats.mutex: its holder
  failedUsers,  \* the list readFailedUsersFromCSV returned
  tasks,        \* the tasks of the phase being launched
  launch,       \* the launcher's loop position (tasks handled so far)
  wg,           \* the phase's sync.WaitGroup counter
  resultChan,   \* the phase's result channel
  roleW,        \* the roleCreationWorker goroutines, by threadID
  userW,        \* the userCreationWorker / retryUsersWorkerScalable goroutines
  consumer,     \* the processResults goroutine
  report,       \* what PrintStats printed
  pIn, pOut     \* inputs and result of a partitioning call checked on its own

vars == <<config, retryFailed, pc, ledgerFile, scimFile, csvWriter, fw, fwMutex,
          stats, statsMutex, failedUsers, tasks, launch, wg, resultChan, roleW,
          userW, consumer, report, pIn, pOut>>

runVars == <<config, retryFailed, pc, ledgerFile, scimFile, csvWriter, fw, fwMutex,
             stats, statsMutex, failedUsers, tasks, launch, wg, resultChan, roleW,
             userW, consumer, report>>

Threads == 0..(MaxThreads - 1)

\* ------------------------------------------------------------ configuration
\* time.Second, in nanoseconds.
Second == 1000000000

UsernamePrefix == <<"isTestUser", "_">>

\* Config.GetTestUsername
GetTestUsername(userIndex) == UsernamePrefix \o Itoa(userIndex)

\* UserStartNumber, TenantStartNumber, RampUpPeriod
Environments == {<<1, 1, 0>>, <<9, 3, 1>>}

FreshConfigs ==
  {[NoOfThreads |-> t, NoOfUsers |-> uk[1], NoOfTenants |-> uk[2],
    UserStartNumber |-> e[1], TenantStartNumber |-> e[2], RampUpPeriod |-> e[3]] :
      t \in 1..MaxThreads,
      uk \in {x \in (0..MaxOps) \X (0..MaxOps) : x[1] * x[2] <= MaxOps},
      e \in Environments}

RetryConfigs ==
  {[NoOfThreads |-> t, NoOfUsers |-> 1, NoOfTenants |-> 1,
    UserStartNumber |-> e[1], TenantStartNumber |-> e[2], RampUpPeriod |-> e[3]] :
      t \in 1..MaxThreads, e \in Environments}

\* rampUpDelay of ExecuteUserCreation and ExecuteRetryFailed, in nanoseconds.
RampUpDelay(c) == GoDiv(c.RampUpPeriod * Second, c.NoOfThreads)

\* -------------------------------------------------------------------- files
NoFile == [exists |-> FALSE, rows |-> <<>>]

File(rows) == [exists |-> TRUE, rows |-> rows]

LedgerHeader == <<<<"TenantID">>, <<"Username">>, <<"Error">>, <<"Timestamp">>>>

ScimHeader == <<<<"scim_id">>>>

\* err.Error() of a failed remote call, and time.Now() as the worker formats it.
ErrorText == <<"user creation failed">>

Now == <<"2006-01-02 15:04:05">>

\* The record WriteFailedUser builds.
LedgerRecord_NoTenant(tenantID, username, errorMsg, timestamp) ==
  <<Itoa(0), username, errorMsg, timestamp>>

LedgerRecord(tenantID, username, errorMsg, timestamp) ==
  <<Itoa(tenantID), username, errorMsg, timestamp>>

\* Rows an earlier run left in the ledger.
EarlierFailures ==
  << [TenantID |-> 3,  Username |-> <<"isTestUser", "_", "5">>],
     [TenantID |-> 7,  Username |-> <<"a", "_", "9">>],
     [TenantID |-> 3,  Username |-> <<"bob">>],
     [TenantID |-> 12, Username |-> <<"isTestUser", "_", "1", "0">>] >>

EarlierRow(i) ==
  LET r == EarlierFailures[((i - 1) % Len(EarlierFailures)) + 1]
  IN  LedgerRecord(r.TenantID, r.Username, ErrorText, Now)

EarlierLedger(n) == File(<<LedgerHeader>> \o [i \in 1..n |-> EarlierRow(i)])

DataRows(file) ==
  IF Len(file.rows) > 0 /\ file.rows[1] = LedgerHeader
  THEN SubSeq(file.rows, 2, Len(file.rows))
  ELSE file.rows

\* encoding/csv Reader.ReadAll with FieldsPerRecord = 0: every record must
\* have as many fields as the first one.
ReadAll(file) ==
  IF \E i \in 1..Len(file.rows) : Len(file.rows[i]) /= Len(file.rows[1])
  THEN [err |-> TRUE, records |-> <<>>]
  ELSE [err |-> FALSE, records |-> file.rows]

RECURSIVE ParseRecords(_, _, _)
ParseRecords(records, i, acc) ==
  IF i > Len(records) THEN acc
  ELSE
    LET record   == records[i]
        tenantID == Atoi(record[1])
    IN  IF Len(record) < 4 \/ ~tenantID.ok
        THEN ParseRecords(records, i + 1, acc)
        ELSE ParseRecords(records, i + 1,
               Append(acc, [TenantID |-> tenantID.val, Username |-> record[2],
                            Error |-> record[3], Timestamp |-> record[4]]))

readFailedUsersFromCSV_IgnoresReadError(file) ==
  [err |-> FALSE, users |-> ParseRecords(file.rows, 2, <<>>)]

readFailedUsersFromCSV(file) ==
  IF ~file.exists THEN [err |-> TRUE, users |-> <<>>]
  ELSE
    LET all == ReadAll(file)
        startRow ==
          IF Len(all.records) > 0
             /\ (all.records[1][1] = <<"TenantID">> \/ all.records[1][1] = <<"Tenant ID">>)
          THEN 1 ELSE 0
    IN  IF all.err THEN [err |-> TRUE, users |-> <<>>]
        ELSE [err |-> FALSE, users |-> ParseRecords(all.records, startRow + 1, <<>>)]

\* NewCSVWriter: remove, create, buffer the header (it is not flushed).
NewCSVWriterOutcomes(file) ==
  {[err |-> FALSE, file |-> File(<<>>), buf |-> <<ScimHeader>>],
   [err |-> TRUE, file |-> file, buf |-> <<>>],
   [err |-> TRUE, file |-> NoFile, buf |-> <<>>]}

\* NewFailedUsersCSVWriter: remove, create, write and flush the header.
NewFailedUsersCSVWriterOutcomes_KeepsContent(file) ==
  {[err |-> FALSE,
    file |-> IF ~file.exists \/ Len(file.rows) = 0 THEN File(<<LedgerHeader>>) ELSE file],
   [err |-> TRUE, file |-> file],
   [err |-> TRUE, file |-> NoFile]}

NewFailedUsersCSVWriterOutcomes(file) ==
  {[err |-> FALSE, file |-> File(<<LedgerHeader>>)],
   [err |-> TRUE, file |-> file],
   [err |-> TRUE, file |-> NoFile]}

\* NewFailedUsersCSVWriterAppend: open for append, creating the file; write
\* and flush the header when the file is empty.
NewFailedUsersCSVWriterAppendOutcomes_Truncates(file) ==
  {[err |-> FALSE, file |-> File(<<LedgerHeader>>)],
   [err |-> TRUE, file |-> file]}

NewFailedUsersCSVWriterAppendOutcomes_AlwaysHeader(file) ==
  {[err |-> FALSE, file |-> File(file.rows \o <<LedgerHeader>>)],
   [err |-> TRUE, file |-> file]}

NewFailedUsersCSVWriterAppendOutcomes(file) ==
  {[err |-> FALSE,
    file |-> IF ~file.exists \/ Len(file.rows) = 0 THEN File(<<LedgerHeader>>) ELSE file],
   [err |-> TRUE, file |-> file]}

\* ------------------------------------------------------------ initial state
Nobody == [kind |-> "none", id |-> 0]

RoleHolder(w) == [kind |-> "role", id |-> w]

UserHolder(w) == [kind |-> "user", id |-> w]

ConsumerHolder == [kind |-> "consumer", id |-> 0]

NoTask == [ThreadID |-> 0, Start |-> 0, End |-> -1, spawn |-> FALSE]

NoResult == [TenantIndex |-> 0, UserIndex |-> 0, ScimID |-> <<>>, Success |-> FALSE,
             ThreadID |-> 0]

NoWorker == [pc |-> "none", kind |-> "none", task |-> NoTask, u |-> 0, t |-> 0,
             result |-> NoResult, log |-> <<>>, writes |-> 0]

NoChan == [made |-> FALSE, cap |-> 0, buf |-> <<>>, closed |-> FALSE]

NoConsumer == [pc |-> "none", cur |-> NoResult,
               seen |-> [w \in Threads |-> [n |-> 0, failed |-> 0]]]

NewTestStats == [TotalUsers |-> 0, SuccessUsers |-> 0, FailedUsers |-> 0,
                 TotalRoles |-> 0, SuccessRoles |-> 0, FailedRoles |-> 0]

NoReport == [printed |-> FALSE, stats |-> NewTestStats]

FreshLedgers == {NoFile, EarlierLedger(1)}

\* A ledger whose last row was cut short: two fields instead of four.
TruncatedLedger ==
  File(Append(EarlierLedger(1).rows, <<Itoa(7), <<"a", "_", "9">>>>))

RetryLedgers ==
  {NoFile, File(<<>>), TruncatedLedger} \cup {EarlierLedger(n) : n \in 0..MaxLedger}

EarlierScimFile == File(<<ScimHeader, <<<<"id">>>>>>)

InitRun(mode) ==
  /\ retryFailed = mode
  /\ config \in (IF mode THEN RetryConfigs ELSE FreshConfigs)
  /\ ledgerFile \in (IF mode THEN RetryLedgers ELSE FreshLedgers)
  /\ scimFile = (IF ledgerFile.exists THEN EarlierScimFile ELSE NoFile)
  /\ pc = "start"
  /\ csvWriter = [state |-> "nil", buf |-> <<>>]
  /\ fw = [state |-> "nil", err |-> FALSE, opened |-> <<>>]
  /\ fwMutex = Nobody
  /\ stats = NewTestStats
  /\ statsMutex = Nobody
  /\ failedUsers = <<>>
  /\ tasks = <<>>
  /\ launch = 0
  /\ wg = 0
  /\ resultChan = NoChan
  /\ roleW = [w \in Threads |-> NoWorker]
  /\ userW = [w \in Threads |-> NoWorker]
  /\ consumer = NoConsumer
  /\ report = NoReport

Init ==
  /\ \E mode \in BOOLEAN : InitRun(mode)
  /\ pIn = <<>>
  /\ pOut = <<>>

\* ---------------------------------------------------------- main goroutine
\* sync.Mutex.Lock goes through when nobody holds the mutex.
MutexFree_NeverHeld(m) == TRUE

MutexFree(m) == m = Nobody

\* sync.WaitGroup.Wait returns when the counter is zero.
WaitReturns_Always(counter) == TRUE

WaitReturns(counter) == counter = 0

\* Where a worker stands when its goroutine starts.
StartRoleWorker(r) ==
  [NoWorker EXCEPT !.pc = IF r.Start <= r.End THEN "call" ELSE "exit",
                   !.kind = "role", !.task = r, !.t = r.Start]

StartUserWorker(task, c) ==
  [NoWorker EXCEPT !.pc = IF task.Start <= task.End /\ c.NoOfTenants > 0
                          THEN "call" ELSE "exit",
                   !.kind = "user", !.task = task, !.u = task.Start,
                   !.t = c.TenantStartNumber]

StartRetryWorker(task) ==
  [NoWorker EXCEPT !.pc = IF task.Start <= task.End THEN "call" ELSE "exit",
                   !.kind = "retry", !.task = task, !.u = task.Start]

\* NewTestExecutor creates the failed-users writer only when not in retry mode.
CreatesLedgerWriter_Always(retryMode) == TRUE

CreatesLedgerWriter(retryMode) == ~retryMode

\* main: NewTestExecutor(config, retryFailed); a failure ends in log.Fatalf.
NewTestExecutor ==
  /\ pc = "start"
  /\ \E c \in NewCSVWriterOutcomes(scimFile) :
       IF c.err
       THEN /\ scimFile' = c.file
            /\ pc' = "fatal"
            /\ UNCHANGED <<ledgerFile, csvWriter, fw>>
       ELSE IF ~CreatesLedgerWriter(retryFailed)
       THEN /\ scimFile' = c.file
            /\ csvWriter' = [state |-> "open", buf |-> c.buf]
            /\ pc' = "retryOpen"
            /\ UNCHANGED <<ledgerFile, fw>>
       ELSE \E f \in NewFailedUsersCSVWriterOutcomes(ledgerFile) :
              /\ ledgerFile' = f.file
              /\ IF f.err
                 THEN /\ scimFile' = File(c.file.rows \o c.buf)
                      /\ csvWriter' = [state |-> "closed", buf |-> <<>>]
                      /\ pc' = "fatal"
                      /\ fw' = fw
                 ELSE /\ scimFile' = c.file
                      /\ csvWriter' = [state |-> "open", buf |-> c.buf]
                      /\ fw' = [state |-> "open", err |-> FALSE, opened |-> f.file.rows]
                      /\ pc' = IF retryFailed THEN "retryOpen" ELSE "roleLoop"
  /\ UNCHANGED <<config, retryFailed, fwMutex, stats, statsMutex, failedUsers, tasks,
                 launch, wg, resultChan, roleW, userW, consumer, report, pIn, pOut>>

\* One iteration of the spawn loop of ExecuteRoleCreation.
RoleSpawn ==
  /\ pc = "roleLoop"
  /\ LET r == RoleRanges(config.NoOfTenants, config.NoOfThreads,
                         config.TenantStartNumber)[launch + 1]
     IN  IF r.spawn
         THEN /\ wg' = wg + 1
              /\ roleW' = [roleW EXCEPT ![r.ThreadID] = StartRoleWorker(r)]
         ELSE UNCHANGED <<wg, roleW>>
  /\ launch' = launch + 1
  /\ pc' = IF launch + 1 < config.NoOfThreads THEN "roleLoop" ELSE "roleWait"
  /\ UNCHANGED <<config, retryFailed, ledgerFile, scimFile, csvWriter, fw, fwMutex,
                 stats, statsMutex, failedUsers, tasks, resultChan, userW, consumer,
                 report, pIn, pOut>>

\* wg.Wait() of ExecuteRoleCreation; Execute goes on to ExecuteUserCreation.
RoleWait ==
  /\ pc = "roleWait"
  /\ WaitReturns(wg)
  /\ pc' = "userSetup"
  /\ UNCHANGED <<config, retryFailed, ledgerFile, scimFile, csvWriter, fw, fwMutex,
                 stats, statsMutex, failedUsers, tasks, launch, wg, resultChan, roleW,
                 userW, consumer, report, pIn, pOut>>

\* ExecuteUserCreation up to the spawn loop: the tasks, the channel, the
\* processResults goroutine.
UserSetup ==
  /\ pc = "userSetup"
  /\ tasks' = UserTasks(config.NoOfUsers, config.NoOfThreads, config.UserStartNumber)
  /\ resultChan' = [made |-> TRUE, cap |-> config.NoOfUsers * config.NoOfTenants,
                    buf |-> <<>>, closed |-> FALSE]
  /\ consumer' = [consumer EXCEPT !.pc = "recv"]
  /\ launch' = 0
  /\ pc' = "userSpawn"
  /\ UNCHANGED <<config, retryFailed, ledgerFile, scimFile, csvWriter, fw, fwMutex,
                 stats, statsMutex, failedUsers, wg, roleW, userW, report, pIn, pOut>>

\* Where the launcher goes after a spawn: the ramp-up sleep, the next
\* iteration, or the join.
AfterSpawn_NoSleep(sleepPc, spawnPc, waitPc) ==
  IF launch + 1 < Len(tasks) THEN spawnPc ELSE waitPc

AfterSpawn(sleepPc, spawnPc, waitPc) ==
  IF RampUpDelay(config) > 0 THEN sleepPc
  ELSE IF launch + 1 < Len(tasks) THEN spawnPc
  ELSE waitPc

\* One iteration of the spawn loop of ExecuteUserCreation.
UserSpawn ==
  /\ pc = "userSpawn"
  /\ LET task == tasks[launch + 1]
     IN  /\ wg' = wg + 1
         /\ userW' = [userW EXCEPT ![task.ThreadID] = StartUserWorker(task, config)]
  /\ launch' = launch + 1
  /\ pc' = AfterSpawn("userSleep", "userSpawn", "userWait")
  /\ UNCHANGED <<config, retryFailed, ledgerFile, scimFile, csvWriter, fw, fwMutex,
                 stats, statsMutex, failedUsers, tasks, resultChan, roleW, consumer,
                 report, pIn, pOut>>

\* time.Sleep(rampUpDelay) after a spawn.
UserSleep ==
  /\ pc = "userSleep"
  /\ pc' = IF launch < Len(tasks) THEN "userSpawn" ELSE "userWait"
  /\ UNCHANGED <<config, retryFailed, ledgerFile, scimFile, csvWriter, fw, fwMutex,
                 stats, statsMutex, failedUsers, tasks, launch, wg, resultChan, roleW,
                 userW, consumer, report, pIn, pOut>>

\* wg.Wait() of ExecuteUserCreation.
UserWait ==
  /\ pc = "userWait"
  /\ WaitReturns(wg)
  /\ pc' = "userClose"
  /\ UNCHANGED <<config, retryFailed, ledgerFile, scimFile, csvWriter, fw, fwMutex,
                 stats, statsMutex, failedUsers, tasks, launch, wg, resultChan, roleW,
                 userW, consumer, report, pIn, pOut>>

\* close(resultChan) of ExecuteUserCreation, which then returns to Execute.
UserClose ==
  /\ pc = "userClose"
  /\ resultChan' = [resultChan EXCEPT !.closed = TRUE]
  /\ pc' = "printStats"
  /\ UNCHANGED <<config, retryFailed, ledgerFile, scimFile, csvWriter, fw, fwMutex,
                 stats, statsMutex, failedUsers, tasks, launch, wg, roleW, userW,
                 consumer, report, pIn, pOut>>

\* TestStats.PrintStats, called by Execute and by ExecuteRetryFailed: it
\* reads the counters under the mutex.
PrintStats ==
  /\ pc = "printStats"
  /\ MutexFree(statsMutex)
  /\ report' = [printed |-> TRUE, stats |-> stats]
  /\ pc' = "close"
  /\ UNCHANGED <<config, retryFailed, ledgerFile, scimFile, csvWriter, fw, fwMutex,
                 stats, statsMutex, failedUsers, tasks, launch, wg, resultChan, roleW,
                 userW, consumer, pIn, pOut>>

\* The deferred closes on the way out of main: failedUsersWriter.Close() of
\* ExecuteRetryFailed and executor.Close(); then the process exits.
ExecutorClose ==
  /\ pc = "close"
  /\ fwMutex = Nobody
  /\ scimFile' = File(scimFile.rows \o csvWriter.buf)
  /\ csvWriter' = [state |-> "closed", buf |-> <<>>]
  /\ fw' = IF fw.state = "nil" THEN fw ELSE [fw EXCEPT !.state = "closed"]
  /\ pc' = "done"
  /\ UNCHANGED <<config, retryFailed, ledgerFile, fwMutex, stats, statsMutex,
                 failedUsers, tasks, launch, wg, resultChan, roleW, userW, consumer,
                 report, pIn, pOut>>

\* ExecuteRetryFailed: NewFailedUsersCSVWriterAppend and the assignment to
\* te.failedUsersWriter.
RetryOpen ==
  /\ pc = "retryOpen"
  /\ \E f \in NewFailedUsersCSVWriterAppendOutcomes(ledgerFile) :
       /\ ledgerFile' = f.file
       /\ IF f.err
          THEN /\ pc' = "fatal"
               /\ fw' = fw
          ELSE /\ pc' = "retryRead"
               /\ fw' = [state |-> "open", err |-> FALSE, opened |-> f.file.rows]
  /\ UNCHANGED <<config, retryFailed, scimFile, csvWriter, fwMutex, stats, statsMutex,
                 failedUsers, tasks, launch, wg, resultChan, roleW, userW, consumer,
                 report, pIn, pOut>>

\* The test of ExecuteRetryFailed for its early return without an error.
NothingToRetry_Never(users) == FALSE

NothingToRetry(users) == Len(users) = 0

\* ExecuteRetryFailed: readFailedUsersFromCSV and the two early returns. The
\* read fails on a ledger encoding/csv rejects, and whenever os.Open fails.
RetryRead ==
  /\ pc = "retryRead"
  /\ \E r \in {readFailedUsersFromCSV(ledgerFile), [err |-> TRUE, users |-> <<>>]} :
         IF r.err
         THEN /\ pc' = "fatal"
              /\ fw' = [fw EXCEPT !.state = "closed"]
              /\ failedUsers' = failedUsers
         ELSE IF NothingToRetry(r.users)
         THEN /\ pc' = "close"
              /\ UNCHANGED <<fw, failedUsers>>
         ELSE /\ pc' = "retrySetup"
              /\ failedUsers' = r.users
              /\ fw' = fw
  /\ UNCHANGED <<config, retryFailed, ledgerFile, scimFile, csvWriter, fwMutex, stats,
                 statsMutex, tasks, launch, wg, resultChan, roleW, userW, consumer,
                 report, pIn, pOut>>

\* ExecuteRetryFailed up to the spawn loop: the tasks, the channel, the
\* processResults goroutine.
RetrySetup ==
  /\ pc = "retrySetup"
  /\ tasks' = RetryTasks(Len(failedUsers), config.NoOfThreads)
  /\ resultChan' = [made |-> TRUE, cap |-> Len(failedUsers), buf |-> <<>>,
                    closed |-> FALSE]
  /\ consumer' = [consumer EXCEPT !.pc = "recv"]
  /\ launch' = 0
  /\ pc' = "retrySpawn"
  /\ UNCHANGED <<config, retryFailed, ledgerFile, scimFile, csvWriter, fw, fwMutex,
                 stats, statsMutex, failedUsers, wg, roleW, userW, report, pIn, pOut>>

\* One iteration of the spawn loop of ExecuteRetryFailed.
RetrySpawn ==
  /\ pc = "retrySpawn"
  /\ LET task == tasks[launch + 1]
     IN  /\ wg' = wg + 1
         /\ userW' = [userW EXCEPT ![task.ThreadID] = StartRetryWorker(task)]
  /\ launch' = launch + 1
  /\ pc' = AfterSpawn("retrySleep", "retrySpawn", "retryWait")
  /\ UNCHANGED <<config, retryFailed, ledgerFile, scimFile, csvWriter, fw, fwMutex,
                 stats, statsMutex, failedUsers, tasks, resultChan, roleW, consumer,
                 report, pIn, pOut>>

\* time.Sleep(rampUpDelay) after a spawn.
RetrySleep ==
  /\ pc = "retrySleep"
  /\ pc' = IF launch < Len(tasks) THEN "retrySpawn" ELSE "retryWait"
  /\ UNCHANGED <<config, retryFailed, ledgerFile, scimFile, csvWriter, fw, fwMutex,
                 stats, statsMutex, failedUsers, tasks, launch, wg, resultChan, roleW,
                 userW, consumer, report, pIn, pOut>>

\* wg.Wait() of ExecuteRetryFailed.
RetryWait ==
  /\ pc = "retryWait"
  /\ WaitReturns(wg)
  /\ pc' = "retryClose"
  /\ UNCHANGED <<config, retryFailed, ledgerFile, scimFile, csvWriter, fw, fwMutex,
                 stats, statsMutex, failedUsers, tasks, launch, wg, resultChan, roleW,
                 userW, consumer, report, pIn, pOut>>

\* close(resultChan) of ExecuteRetryFailed.
RetryClose ==
  /\ pc = "retryClose"
  /\ resultChan' = [resultChan EXCEPT !.closed = TRUE]
  /\ pc' = "printStats"
  /\ UNCHANGED <<config, retryFailed, ledgerFile, scimFile, csvWriter, fw, fwMutex,
                 stats, statsMutex, failedUsers, tasks, launch, wg, roleW, userW,
                 consumer, report, pIn, pOut>>

\* --------------------------------------------------------------- goroutines
\* Goroutines run until main returns or log.Fatalf ends the process.
Running == pc \notin {"done", "fatal"}

\* TestStats.IncrementRole, statement by statement.
RoleTotal_CountsUserToo(st) ==
  [st EXCEPT !.TotalRoles = @ + 1, !.TotalUsers = @ + 1]

RoleTotal(st) == [st EXCEPT !.TotalRoles = @ + 1]

RoleOutcome_FailedNotCounted(st, success) ==
  IF success THEN [st EXCEPT !.SuccessRoles = @ + 1] ELSE st

RoleOutcome(st, success) ==
  IF success THEN [st EXCEPT !.SuccessRoles = @ + 1]
  ELSE [st EXCEPT !.FailedRoles = @ + 1]

\* TestStats.IncrementUser, statement by statement.
UserTotal(st) == [st EXCEPT !.TotalUsers = @ + 1]

UserOutcome(st, success) ==
  IF success THEN [st EXCEPT !.SuccessUsers = @ + 1]
  ELSE [st EXCEPT !.FailedUsers = @ + 1]

\* roleCreationWorker: client.CreateRole(tenantIndex) returns.
RoleCall(w) ==
  /\ Running
  /\ roleW[w].pc = "call"
  /\ \E ok \in BOOLEAN :
       roleW' = [roleW EXCEPT ![w].log = Append(@, [tenant |-> roleW[w].t, ok |-> ok]),
                              ![w].result.Success = ok,
                              ![w].pc = "incLock"]
  /\ UNCHANGED <<config, retryFailed, pc, ledgerFile, scimFile, csvWriter, fw, fwMutex,
                 stats, statsMutex, failedUsers, tasks, launch, wg, resultChan, userW,
                 consumer, report, pIn, pOut>>

\* IncrementRole: ts.mutex.Lock()
RoleIncLock(w) ==
  /\ Running
  /\ roleW[w].pc = "incLock"
  /\ MutexFree(statsMutex)
  /\ statsMutex' = RoleHolder(w)
  /\ roleW' = [roleW EXCEPT ![w].pc = "incTotal"]
  /\ UNCHANGED <<config, retryFailed, pc, ledgerFile, scimFile, csvWriter, fw, fwMutex,
                 stats, failedUsers, tasks, launch, wg, resultChan, userW, consumer,
                 report, pIn, pOut>>

\* IncrementRole: ts.TotalRoles++
RoleIncTotal(w) ==
  /\ Running
  /\ roleW[w].pc = "incTotal"
  /\ stats' = RoleTotal(stats)
  /\ roleW' = [roleW EXCEPT ![w].pc = "incOutcome"]
  /\ UNCHANGED <<config, retryFailed, pc, ledgerFile, scimFile, csvWriter, fw, fwMutex,
                 statsMutex, failedUsers, tasks, launch, wg, resultChan, userW,
                 consumer, report, pIn, pOut>>

\* IncrementRole: the success or failed counter, the deferred Unlock, and the
\* worker's step to its next tenant.
RoleIncOutcome(w) ==
  /\ Running
  /\ roleW[w].pc = "incOutcome"
  /\ stats' = RoleOutcome(stats, roleW[w].result.Success)
  /\ statsMutex' = Nobody
  /\ roleW' = [roleW EXCEPT ![w].t = @ + 1,
                            ![w].pc = IF roleW[w].t + 1 <= roleW[w].task.End
                                      THEN "call" ELSE "exit"]
  /\ UNCHANGED <<config, retryFailed, pc, ledgerFile, scimFile, csvWriter, fw, fwMutex,
                 failedUsers, tasks, launch, wg, resultChan, userW, consumer, report,
                 pIn, pOut>>

\* roleCreationWorker returns: the deferred wg.Done().
RoleExit(w) ==
  /\ Running
  /\ roleW[w].pc = "exit"
  /\ wg' = wg - 1
  /\ roleW' = [roleW EXCEPT ![w].pc = "done"]
  /\ UNCHANGED <<config, retryFailed, pc, ledgerFile, scimFile, csvWriter, fw, fwMutex,
                 stats, statsMutex, failedUsers, tasks, launch, resultChan, userW,
                 consumer, report, pIn, pOut>>

\* Where a user or retry worker goes when its remote call has returned.
AfterCall_NeverWrites(ok, writerPresent) == "send"

AfterCall_FailureKillsWorker(ok, writerPresent) ==
  IF ok THEN "send" ELSE "panic"

AfterCall(ok, writerPresent) ==
  IF ~ok /\ writerPresent THEN "wlock" ELSE "send"

\* userCreationWorker: task.Client.CreateUser(tenantIndex, userIndex) returns.
\* The client sends GetTestUsername(userIndex) as the user name.
UserCall(w) ==
  /\ Running
  /\ userW[w].pc = "call"
  /\ userW[w].kind = "user"
  /\ \E ok \in BOOLEAN :
       userW' = [userW EXCEPT
         ![w].log = Append(@, [tenant |-> userW[w].t, index |-> userW[w].u,
                               username |-> GetTestUsername(userW[w].u), ok |-> ok]),
         ![w].result = [TenantIndex |-> userW[w].t, UserIndex |-> userW[w].u,
                        ScimID |-> IF ok THEN <<"id">> ELSE <<>>, Success |-> ok,
                        ThreadID |-> userW[w].task.ThreadID],
         ![w].pc = AfterCall(ok, fw.state /= "nil")]
  /\ UNCHANGED <<config, retryFailed, pc, ledgerFile, scimFile, csvWriter, fw, fwMutex,
                 stats, statsMutex, failedUsers, tasks, launch, wg, resultChan, roleW,
                 consumer, report, pIn, pOut>>

\* The user index retryUsersWorkerScalable works out of a stored user name.
RetryUserIndex(username) ==
  IF SplitCount(username, "_") > 1 /\ Atoi(SplitLast(username, "_")).ok
  THEN Atoi(SplitLast(username, "_")).val
  ELSE -1

\* The arguments retryUsersWorkerScalable hands to CreateUserWithName for a
\* loaded record.
RetryRequest_FromIndex(user) ==
  [tenant |-> user.TenantID,
   username |-> GetTestUsername(RetryUserIndex(user.Username))]

RetryRequest(user) == [tenant |-> user.TenantID, username |-> user.Username]

\* retryUsersWorkerScalable: task.Client.CreateUserWithName(user.TenantID,
\* user.Username) returns.
RetryCall(w) ==
  /\ Running
  /\ userW[w].pc = "call"
  /\ userW[w].kind = "retry"
  /\ LET user == failedUsers[userW[w].u + 1]
     IN  \E ok \in BOOLEAN :
           userW' = [userW EXCEPT
             ![w].log = Append(@, [tenant |-> RetryRequest(user).tenant,
                                   index |-> userW[w].u,
                                   username |-> RetryRequest(user).username,
                                   ok |-> ok]),
             ![w].result = [TenantIndex |-> user.TenantID,
                            UserIndex |-> RetryUserIndex(user.Username),
                            ScimID |-> IF ok THEN <<"id">> ELSE <<>>, Success |-> ok,
                            ThreadID |-> userW[w].task.ThreadID],
             ![w].pc = AfterCall(ok, TRUE)]
  /\ UNCHANGED <<config, retryFailed, pc, ledgerFile, scimFile, csvWriter, fw, fwMutex,
                 stats, statsMutex, failedUsers, tasks, launch, wg, resultChan, roleW,
                 consumer, report, pIn, pOut>>

\* WriteFailedUser: fw.mutex.Lock()
WriteLock(w) ==
  /\ Running
  /\ userW[w].pc = "wlock"
  /\ MutexFree(fwMutex)
  /\ fwMutex' = UserHolder(w)
  /\ userW' = [userW EXCEPT ![w].pc = "write"]
  /\ UNCHANGED <<config, retryFailed, pc, ledgerFile, scimFile, csvWriter, fw, stats,
                 statsMutex, failedUsers, tasks, launch, wg, resultChan, roleW,
                 consumer, report, pIn, pOut>>

\* The row a worker hands to WriteFailedUser for its failed Operation.
FailedRow(wk) ==
  IF wk.kind = "user"
  THEN LedgerRecord(wk.t, GetTestUsername(wk.u), ErrorText, Now)
  ELSE LedgerRecord(failedUsers[wk.u + 1].TenantID, failedUsers[wk.u + 1].Username,
                    ErrorText, Now)

\* Where a worker goes when WriteFailedUser has returned csvErr: it prints a
\* message on an error and sends the Outcome either way.
AfterWrite_StopsOnError(csvErr) == IF csvErr THEN "exit" ELSE "send"

AfterWrite(csvErr) == "send"

\* WriteFailedUser: Write, Flush, the deferred Unlock. An I/O error of the
\* buffered writer is sticky: once a write failed, every later one fails.
WriteRecord(w) ==
  /\ Running
  /\ userW[w].pc = "write"
  /\ \E fail \in BOOLEAN :
       /\ IF fw.err \/ fail
          THEN /\ fw' = [fw EXCEPT !.err = TRUE]
               /\ ledgerFile' = ledgerFile
          ELSE /\ ledgerFile' = File(Append(ledgerFile.rows, FailedRow(userW[w])))
               /\ fw' = fw
       /\ userW' = [userW EXCEPT ![w].pc = AfterWrite(fw.err \/ fail),
                                 ![w].writes = @ + 1]
  /\ fwMutex' = Nobody
  /\ UNCHANGED <<config, retryFailed, pc, scimFile, csvWriter, stats, statsMutex,
                 failedUsers, tasks, launch, wg, resultChan, roleW, consumer, report,
                 pIn, pOut>>

\* The worker's position after the Operation at (u, t).
NextOperation_InclusiveTenantBound(wk, c) ==
  IF wk.t + 1 <= c.TenantStartNumber + c.NoOfTenants
  THEN [wk EXCEPT !.t = @ + 1, !.pc = "call"]
  ELSE IF wk.u + 1 <= wk.task.End
  THEN [wk EXCEPT !.u = @ + 1, !.t = c.TenantStartNumber, !.pc = "call"]
  ELSE [wk EXCEPT !.pc = "exit"]

NextOperation_StopsAfterFailure(wk, c) ==
  IF ~wk.result.Success THEN [wk EXCEPT !.pc = "exit"]
  ELSE IF wk.kind = "user"
  THEN IF wk.t + 1 < c.TenantStartNumber + c.NoOfTenants
       THEN [wk EXCEPT !.t = @ + 1, !.pc = "call"]
       ELSE IF wk.u + 1 <= wk.task.End
       THEN [wk EXCEPT !.u = @ + 1, !.t = c.TenantStartNumber, !.pc = "call"]
       ELSE [wk EXCEPT !.pc = "exit"]
  ELSE IF wk.u + 1 <= wk.task.End
       THEN [wk EXCEPT !.u = @ + 1, !.pc = "call"]
       ELSE [wk EXCEPT !.pc = "exit"]

NextOperation_TenantMajor(wk, c) ==
  IF wk.kind = "user"
  THEN IF wk.u + 1 <= wk.task.End
       THEN [wk EXCEPT !.u = @ + 1, !.pc = "call"]
       ELSE IF wk.t + 1 < c.TenantStartNumber + c.NoOfTenants
       THEN [wk EXCEPT !.t = @ + 1, !.u = wk.task.Start, !.pc = "call"]
       ELSE [wk EXCEPT !.pc = "exit"]
  ELSE IF wk.u + 1 <= wk.task.End
       THEN [wk EXCEPT !.u = @ + 1, !.pc = "call"]
       ELSE [wk EXCEPT !.pc = "exit"]

NextOperation(wk, c) ==
  IF wk.kind = "user"
  THEN IF wk.t + 1 < c.TenantStartNumber + c.NoOfTenants
       THEN [wk EXCEPT !.t = @ + 1, !.pc = "call"]
       ELSE IF wk.u + 1 <= wk.task.End
       THEN [wk EXCEPT !.u = @ + 1, !.t = c.TenantStartNumber, !.pc = "call"]
       ELSE [wk EXCEPT !.pc = "exit"]
  ELSE IF wk.u + 1 <= wk.task.End
       THEN [wk EXCEPT !.u = @ + 1, !.pc = "call"]
       ELSE [wk EXCEPT !.pc = "exit"]

\* The channel after a send of result.
ChanSend_DropsFailed(ch, result) ==
  IF result.Success THEN [ch EXCEPT !.buf = Append(@, result)] ELSE ch

ChanSend(ch, result) == [ch EXCEPT !.buf = Append(@, result)]

\* resultChan <- result, then the next iteration. The send blocks while the
\* buffer is full and panics on a closed channel.
Send(w) ==
  /\ Running
  /\ userW[w].pc = "send"
  /\ IF resultChan.closed
     THEN /\ userW' = [userW EXCEPT ![w].pc = "panic"]
          /\ resultChan' = resultChan
     ELSE /\ Len(resultChan.buf) < resultChan.cap
          /\ resultChan' = ChanSend(resultChan, userW[w].result)
          /\ userW' = [userW EXCEPT ![w] = NextOperation(@, config)]
  /\ UNCHANGED <<config, retryFailed, pc, ledgerFile, scimFile, csvWriter, fw, fwMutex,
                 stats, statsMutex, failedUsers, tasks, launch, wg, roleW, consumer,
                 report, pIn, pOut>>

\* userCreationWorker / retryUsersWorkerScalable returns: the deferred wg.Done().
WorkerExit(w) ==
  /\ Running
  /\ userW[w].pc = "exit"
  /\ wg' = wg - 1
  /\ userW' = [userW EXCEPT ![w].pc = "done"]
  /\ UNCHANGED <<config, retryFailed, pc, ledgerFile, scimFile, csvWriter, fw, fwMutex,
                 stats, statsMutex, failedUsers, tasks, launch, resultChan, roleW,
                 consumer, report, pIn, pOut>>

\* processResults: the range loop receives the next result.
ConsumerRecv ==
  /\ Running
  /\ consumer.pc = "recv"
  /\ Len(resultChan.buf) > 0
  /\ LET r == Head(resultChan.buf)
     IN  consumer' = [consumer EXCEPT
           !.cur = r,
           !.seen[r.ThreadID] = [n |-> @.n + 1,
                                 failed |-> @.failed + (IF r.Success THEN 0 ELSE 1)],
           !.pc = "incLock"]
  /\ resultChan' = [resultChan EXCEPT !.buf = Tail(@)]
  /\ UNCHANGED <<config, retryFailed, pc, ledgerFile, scimFile, csvWriter, fw, fwMutex,
                 stats, statsMutex, failedUsers, tasks, launch, wg, roleW, userW,
                 report, pIn, pOut>>

\* processResults: the range loop ends on a closed, drained channel.
ConsumerExit ==
  /\ Running
  /\ consumer.pc = "recv"
  /\ Len(resultChan.buf) = 0
  /\ resultChan.closed
  /\ consumer' = [consumer EXCEPT !.pc = "exited"]
  /\ UNCHANGED <<config, retryFailed, pc, ledgerFile, scimFile, csvWriter, fw, fwMutex,
                 stats, statsMutex, failedUsers, tasks, launch, wg, resultChan, roleW,
                 userW, report, pIn, pOut>>

\* IncrementUser: ts.mutex.Lock()
UserIncLock ==
  /\ Running
  /\ consumer.pc = "incLock"
  /\ MutexFree(statsMutex)
  /\ statsMutex' = ConsumerHolder
  /\ consumer' = [consumer EXCEPT !.pc = "incTotal"]
  /\ UNCHANGED <<config, retryFailed, pc, ledgerFile, scimFile, csvWriter, fw, fwMutex,
                 stats, failedUsers, tasks, launch, wg, resultChan, roleW, userW,
                 report, pIn, pOut>>

\* IncrementUser: ts.TotalUsers++
UserIncTotal ==
  /\ Running
  /\ consumer.pc = "incTotal"
  /\ stats' = UserTotal(stats)
  /\ consumer' = [consumer EXCEPT !.pc = "incOutcome"]
  /\ UNCHANGED <<config, retryFailed, pc, ledgerFile, scimFile, csvWriter, fw, fwMutex,
                 statsMutex, failedUsers, tasks, launch, wg, resultChan, roleW, userW,
                 report, pIn, pOut>>

\* IncrementUser: the success or failed counter and the deferred Unlock.
UserIncOutcome ==
  /\ Running
  /\ consumer.pc = "incOutcome"
  /\ stats' = UserOutcome(stats, consumer.cur.Success)
  /\ statsMutex' = Nobody
  /\ consumer' = [consumer EXCEPT !.pc = "recv"]
  /\ UNCHANGED <<config, retryFailed, pc, ledgerFile, scimFile, csvWriter, fw, fwMutex,
                 failedUsers, tasks, launch, wg, resultChan, roleW, userW, report,
                 pIn, pOut>>

\* ------------------------------------------------------------ specification
Next ==
  \/ NewTestExecutor
  \/ RoleSpawn
  \/ RoleWait
  \/ UserSetup
  \/ UserSpawn
  \/ UserSleep
  \/ UserWait
  \/ UserClose
  \/ PrintStats
  \/ ExecutorClose
  \/ RetryOpen
  \/ RetryRead
  \/ RetrySetup
  \/ RetrySpawn
  \/ RetrySleep
  \/ RetryWait
  \/ RetryClose
  \/ \E w \in Threads : RoleCall(w)
  \/ \E w \in Threads : RoleIncLock(w)
  \/ \E w \in Threads : RoleIncTotal(w)
  \/ \E w \in Threads : RoleIncOutcome(w)
  \/ \E w \in Threads : RoleExit(w)
  \/ \E w \in Threads : UserCall(w)
  \/ \E w \in Threads : RetryCall(w)
  \/ \E w \in Threads : WriteLock(w)
  \/ \E w \in Threads : WriteRecord(w)
  \/ \E w \in Threads : Send(w)
  \/ \E w \in Threads : WorkerExit(w)
  \/ ConsumerRecv
  \/ ConsumerExit
  \/ UserIncLock
  \/ UserIncTotal
  \/ UserIncOutcome

Spec == Init /\ [][Next]_vars

\* The steps of each goroutine, for the runs in which the Go scheduler lets
\* every goroutine that can run do so and every remote call return.
MainStep ==
  \/ NewTestExecutor
  \/ RoleSpawn
  \/ RoleWait
  \/ UserSetup
  \/ UserSpawn
  \/ UserSleep
  \/ UserWait
  \/ UserClose
  \/ PrintStats
  \/ ExecutorClose
  \/ RetryOpen
  \/ RetryRead
  \/ RetrySetup
  \/ RetrySpawn
  \/ RetrySleep
  \/ RetryWait
  \/ RetryClose

RoleWorkerStep(w) ==
  RoleCall(w) \/ RoleIncLock(w) \/ RoleIncTotal(w) \/ RoleIncOutcome(w) \/ RoleExit(w)

UserWorkerStep(w) ==
  UserCall(w) \/ RetryCall(w) \/ WriteLock(w) \/ WriteRecord(w) \/ Send(w) \/ WorkerExit(w)

ConsumerStep ==
  ConsumerRecv \/ ConsumerExit \/ UserIncLock \/ UserIncTotal \/ UserIncOutcome

Fairness ==
  /\ WF_vars(MainStep)
  /\ \A w \in Threads : WF_vars(RoleWorkerStep(w)) /\ WF_vars(UserWorkerStep(w))
  /\ WF_vars(ConsumerStep)

SpecFair == Init /\ [][Next]_vars /\ Fairness

\* ------------------------------------------------- the retry runs alone
\* main with -retry-failed: the steps of NewTestExecutor, ExecuteRetryFailed,
\* its workers and the consumer.
InitRetry ==
  /\ InitRun(TRUE)
  /\ pIn = <<>>
  /\ pOut = <<>>

NextRetry ==
  \/ NewTestExecutor
  \/ RetryOpen
  \/ RetryRead
  \/ RetrySetup
  \/ RetrySpawn
  \/ RetrySleep
  \/ RetryWait
  \/ RetryClose
  \/ PrintStats
  \/ ExecutorClose
  \/ \E w \in Threads : RetryCall(w)
  \/ \E w \in Threads : WriteLock(w)
  \/ \E w \in Threads : WriteRecord(w)
  \/ \E w \in Threads : Send(w)
  \/ \E w \in Threads : WorkerExit(w)
  \/ ConsumerRecv
  \/ ConsumerExit
  \/ UserIncLock
  \/ UserIncTotal
  \/ UserIncOutcome

SpecRetry == InitRetry /\ [][NextRetry]_vars

\* --------------------------- the fresh runs over an earlier run's ledger
\* main without -retry-failed, started where an earlier run has left a
\* ledger with data rows.
InitFreshOverEarlier ==
  /\ InitRun(FALSE)
  /\ Len(DataRows(ledgerFile)) > 0
  /\ pIn = <<>>
  /\ pOut = <<>>

NextFresh ==
  \/ NewTestExecutor
  \/ RoleSpawn
  \/ RoleWait
  \/ UserSetup
  \/ UserSpawn
  \/ UserSleep
  \/ UserWait
  \/ UserClose
  \/ PrintStats
  \/ ExecutorClose
  \/ \E w \in Threads : RoleCall(w)
  \/ \E w \in Threads : RoleIncLock(w)
  \/ \E w \in Threads : RoleIncTotal(w)
  \/ \E w \in Threads : RoleIncOutcome(w)
  \/ \E w \in Threads : RoleExit(w)
  \/ \E w \in Threads : UserCall(w)
  \/ \E w \in Threads : WriteLock(w)
  \/ \E w \in Threads : WriteRecord(w)
  \/ \E w \in Threads : Send(w)
  \/ \E w \in Threads : WorkerExit(w)
  \/ ConsumerRecv
  \/ ConsumerExit
  \/ UserIncLock
  \/ UserIncTotal
  \/ UserIncOutcome

SpecFreshOverEarlier == InitFreshOverEarlier /\ [][NextFresh]_vars

\* ------------------------------------------- the partitioning loops alone
\* rangeStart values a partitioning call is tried with.
RangeStarts == {-2, 0, 1, 7}

NoPartition == [loop |-> "none", ranges |-> <<>>]

IdleRun ==
  /\ retryFailed = FALSE
  /\ config = [NoOfThreads |-> 1, NoOfUsers |-> 0, NoOfTenants |-> 0,
               UserStartNumber |-> 1, TenantStartNumber |-> 1, RampUpPeriod |-> 0]
  /\ ledgerFile = NoFile
  /\ scimFile = NoFile
  /\ pc = "idle"
  /\ csvWriter = [state |-> "nil", buf |-> <<>>]
  /\ fw = [state |-> "nil", err |-> FALSE, opened |-> <<>>]
  /\ fwMutex = Nobody
  /\ stats = NewTestStats
  /\ statsMutex = Nobody
  /\ failedUsers = <<>>
  /\ tasks = <<>>
  /\ launch = 0
  /\ wg = 0
  /\ resultChan = NoChan
  /\ roleW = [w \in Threads |-> NoWorker]
  /\ userW = [w \in Threads |-> NoWorker]
  /\ consumer = NoConsumer
  /\ report = NoReport

InitPartition ==
  /\ IdleRun
  /\ pIn \in [total : 0..MaxTotal, workers : 1..MaxWorkers, start : RangeStarts]
  /\ pOut = NoPartition

\* The ranges ExecuteRoleCreation computes for the inputs.
PartitionRoles ==
  /\ pOut.loop = "none"
  /\ pOut' = [loop |-> "role", ranges |-> RoleRanges(pIn.total, pIn.workers, pIn.start)]
  /\ UNCHANGED <<runVars, pIn>>

\* The tasks ExecuteUserCreation builds for the inputs.
PartitionUsers ==
  /\ pOut.loop = "none"
  /\ pOut' = [loop |-> "user", ranges |-> UserTasks(pIn.total, pIn.workers, pIn.start)]
  /\ UNCHANGED <<runVars, pIn>>

\* The tasks ExecuteRetryFailed builds for a list of pIn.total records.
PartitionRetry ==
  /\ pOut.loop = "none"
  /\ pOut' = [loop |-> "retry", ranges |-> RetryTasks(pIn.total, pIn.workers)]
  /\ UNCHANGED <<runVars, pIn>>

NextPartition == PartitionRoles \/ PartitionUsers \/ PartitionRetry

SpecPartition == InitPartition /\ [][NextPartition]_vars

\* ------------------------------------------------------------------- claims
RangeSize(r) == r.End - r.Start + 1

RangeSet(r) == r.Start..r.End

RECURSIVE SumSizes(_, _)
SumSizes(ranges, i) ==
  IF i > Len(ranges) THEN 0 ELSE RangeSize(ranges[i]) + SumSizes(ranges, i + 1)

\* C1: the ranges of the role-creation and user-creation loops are contiguous
\* in owner order starting at rangeStart, pairwise disjoint, cover exactly
\* [rangeStart, rangeStart+total-1], and their sizes sum to total.
C1_PartitionCoverage ==
  pOut.loop \in {"role", "user"} =>
    LET r == pOut.ranges
    IN  /\ Len(r) = pIn.workers
        /\ \A i \in 1..Len(r) : r[i].ThreadID = i - 1
        /\ r[1].Start = pIn.start
        /\ \A i \in 2..Len(r) : r[i].Start = r[i - 1].End + 1
        /\ \A i, j \in 1..Len(r) : i /= j => RangeSet(r[i]) \cap RangeSet(r[j]) = {}
        /\ UNION {RangeSet(r[i]) : i \in 1..Len(r)} = pIn.start..(pIn.start + pIn.total - 1)
        /\ SumSizes(r, 1) = pIn.total

C1_Witness ==
  /\ pOut.loop = "role"
  /\ pIn = [total |-> 7, workers |-> 3, start |-> -2]
  /\ pOut.ranges[3].End = 4

\* C2: owner i gets total/workers units, plus one exactly when i is below
\* total % workers; total = 10 over 3 workers gives sizes 4, 3, 3.
C2_RemainderTieBreak ==
  pOut.loop \in {"role", "user"} =>
    LET r == pOut.ranges
    IN  /\ Len(r) = pIn.workers
        /\ \A i \in 1..Len(r) :
             RangeSize(r[i]) = (pIn.total \div pIn.workers)
                               + (IF i - 1 < pIn.total % pIn.workers THEN 1 ELSE 0)
        /\ (pIn.total = 10 /\ pIn.workers = 3) =>
             <<RangeSize(r[1]), RangeSize(r[2]), RangeSize(r[3])>> = <<4, 3, 3>>

C2_Witness ==
  /\ pOut.loop = "user"
  /\ pIn.total = 10
  /\ pIn.workers = 3
  /\ <<RangeSize(pOut.ranges[1]), RangeSize(pOut.ranges[2]),
       RangeSize(pOut.ranges[3])>> = <<4, 3, 3>>

\* ------------------------------------------------- claims about a whole run
UserWorkers == {w \in Threads : userW[w].pc /= "none"}

RoleWorkers == {w \in Threads : roleW[w].pc /= "none"}

\* The remote user-creation calls made so far, as (worker, position in its log).
Attempts ==
  UNION {{<<w, i>> : i \in 1..Len(userW[w].log)} : w \in Threads}

FailedAttempts == {x \in Attempts : ~userW[x[1]].log[x[2]].ok}

\* The Outcomes worker w has put on the result channel so far: those still
\* buffered and those the consumer has taken.
Delivered(w) ==
  Cardinality({i \in 1..Len(resultChan.buf) : resultChan.buf[i].ThreadID = w})
  + consumer.seen[w].n

DeliveredFailed(w) ==
  Cardinality({i \in 1..Len(resultChan.buf) :
                 resultChan.buf[i].ThreadID = w /\ ~resultChan.buf[i].Success})
  + consumer.seen[w].failed

\* The sum of f[w] over the threadIDs from w up.
RECURSIVE SumFrom(_, _)
SumFrom(f, w) == IF w \notin Threads THEN 0 ELSE f[w] + SumFrom(f, w + 1)

SumOver(f, S) == SumFrom([w \in Threads |-> IF w \in S THEN f[w] ELSE 0], 0)

TotalDelivered == SumOver([w \in Threads |-> Delivered(w)], Threads)

UserRange == config.UserStartNumber..(config.UserStartNumber + config.NoOfUsers - 1)

TenantRange == config.TenantStartNumber..(config.TenantStartNumber + config.NoOfTenants - 1)

AfterUserJoin == ~retryFailed /\ pc \in {"userClose", "printStats", "close", "done"}

AfterRetryJoin == retryFailed /\ pc \in {"retryClose", "printStats", "close", "done"}

AfterRoleJoin ==
  ~retryFailed /\ pc \in {"userSetup", "userSpawn", "userSleep", "userWait", "userClose",
                          "printStats", "close", "done"}

\* C3: a fresh user-creation phase attempts every (userIndex, tenantIndex) pair
\* of the configured ranges exactly once over all workers, attempts nothing
\* else, and puts exactly NoOfUsers * NoOfTenants Outcomes on the channel.
C3_OutcomeCount ==
  ~retryFailed =>
    /\ \A u \in UserRange, t \in TenantRange :
         Cardinality({x \in Attempts : /\ userW[x[1]].log[x[2]].index = u
                                       /\ userW[x[1]].log[x[2]].tenant = t})
           <= 1
    /\ AfterUserJoin =>
         /\ \A u \in UserRange, t \in TenantRange :
              Cardinality({x \in Attempts : /\ userW[x[1]].log[x[2]].index = u
                                            /\ userW[x[1]].log[x[2]].tenant = t})
                = 1
         /\ Cardinality(Attempts) = config.NoOfUsers * config.NoOfTenants
         /\ TotalDelivered = config.NoOfUsers * config.NoOfTenants

C3_Witness ==
  /\ pc = "done"
  /\ ~retryFailed
  /\ config.NoOfUsers = 2
  /\ config.NoOfThreads = 2
  /\ config.NoOfTenants = 1
  /\ Len(userW[0].log) = 1
  /\ Len(userW[1].log) = 1
  /\ TotalDelivered = 2

\* C4: when the final report is printed, the user total it shows equals the
\* number of user Operations attempted in the run.
C4_ReportCountsEveryOutcome ==
  report.printed =>
    report.stats.TotalUsers =
      (IF retryFailed THEN Len(failedUsers)
       ELSE config.NoOfUsers * config.NoOfTenants)

AddsUp(st) ==
  /\ st.TotalRoles = st.SuccessRoles + st.FailedRoles
  /\ st.TotalUsers = st.SuccessUsers + st.FailedUsers

\* C5: whenever no Increment call holds the statistics mutex, and in the
\* statistics the final report reads, total = success + failed for roles
\* and for users.
C5_StatsInvariant ==
  /\ statsMutex = Nobody => AddsUp(stats)
  /\ report.printed => AddsUp(report.stats)

C5_Witness ==
  /\ statsMutex = Nobody
  /\ stats.TotalRoles = 2
  /\ stats.FailedRoles = 1
  /\ stats.TotalUsers = 2
  /\ stats.SuccessUsers = 1

\* The number of Operations of a worker's range.
OperationsOf(wk) ==
  IF wk.kind = "user" THEN RangeSize(wk.task) * config.NoOfTenants
  ELSE RangeSize(wk.task)

\* C6: once an executor is past its join, every worker it spawned has
\* returned and has attempted every Operation of its range.
C6_JoinAfterWorkers ==
  /\ AfterRoleJoin =>
       \A w \in RoleWorkers :
         roleW[w].pc = "done" /\ Len(roleW[w].log) = OperationsOf(roleW[w])
  /\ (AfterUserJoin \/ AfterRetryJoin) =>
       \A w \in UserWorkers :
         userW[w].pc = "done" /\ Len(userW[w].log) = OperationsOf(userW[w])

C6_Witness ==
  /\ pc = "userClose"
  /\ RoleWorkers /= {}
  /\ Cardinality(UserWorkers) = 2
  /\ \A w \in UserWorkers : Len(userW[w].log) = 1

Min(a, b) == IF a <= b THEN a ELSE b

\* C7: in every phase no worker is spawned for a range with End < Start, and
\* once the spawn loop is over the workers spawned are as many as the
\* non-empty ranges: the smaller of the thread count and the total.
C7_NoWorkerForEmptyRange ==
  /\ \A w \in RoleWorkers : roleW[w].task.Start <= roleW[w].task.End
  /\ \A w \in UserWorkers : userW[w].task.Start <= userW[w].task.End
  /\ AfterRoleJoin =>
       Cardinality(RoleWorkers) = Min(config.NoOfThreads, config.NoOfTenants)
  /\ AfterUserJoin =>
       Cardinality(UserWorkers) = Min(config.NoOfThreads, config.NoOfUsers)
  /\ AfterRetryJoin =>
       Cardinality(UserWorkers) = Min(config.NoOfThreads, Len(failedUsers))

FailedInLog(wk) == Cardinality({i \in 1..Len(wk.log) : ~wk.log[i].ok})

\* The Operations of worker wk whose Outcome is due on the channel: all it
\* has called for, less the one it is still working on.
Reported(wk) ==
  IF wk.pc \in {"wlock", "write", "send"} THEN Len(wk.log) - 1 ELSE Len(wk.log)

ReportedFailed(wk) ==
  IF wk.pc \in {"wlock", "write", "send"} /\ ~wk.log[Len(wk.log)].ok
  THEN FailedInLog(wk) - 1 ELSE FailedInLog(wk)

\* C8: a user or retry worker has sent exactly one Outcome for each Operation
\* it has finished, failed or not, and none for the Operation it is still
\* working on; it starts an Operation only with all earlier Outcomes sent.
C8_OneOutcomePerOperation ==
  \A w \in UserWorkers :
    /\ userW[w].pc \in {"call", "wlock", "write", "send", "exit", "done"}
    /\ Delivered(w) = Reported(userW[w])
    /\ DeliveredFailed(w) = ReportedFailed(userW[w])

C8_Witness ==
  \E w \in UserWorkers :
    /\ userW[w].pc = "call"
    /\ Len(userW[w].log) = 1
    /\ ~userW[w].log[1].ok
    /\ DeliveredFailed(w) = 1

\* The WriteFailedUser calls that are due from worker wk: one per failed
\* Operation, less the one it is about to make or is making.
WritesDue(wk) ==
  IF wk.pc \in {"wlock", "write"} THEN FailedInLog(wk) - 1 ELSE FailedInLog(wk)

RowsAdded == Len(ledgerFile.rows) - Len(fw.opened)

\* C9: a worker's WriteFailedUser call for a failed Operation has returned
\* before the worker sends that Operation's Outcome and before it starts its
\* next Operation, and is made only after the remote call failed; while no
\* write has failed, each such call has added one row to the ledger.
C9_LedgerWriteBeforeSend ==
  /\ \A w \in UserWorkers :
       /\ userW[w].writes = WritesDue(userW[w])
       /\ DeliveredFailed(w) <= userW[w].writes
       /\ userW[w].pc \in {"wlock", "write"} => ~userW[w].log[Len(userW[w].log)].ok
  /\ (fw.state /= "nil" /\ ~fw.err) =>
       RowsAdded = SumOver([w \in Threads |-> userW[w].writes], Threads)

C9_Witness ==
  \E w \in UserWorkers :
    /\ userW[w].pc = "send"
    /\ ~userW[w].result.Success
    /\ userW[w].writes = 1
    /\ DeliveredFailed(w) = 0
    /\ RowsAdded = 1
    /\ ledgerFile.rows[Len(ledgerFile.rows)] = FailedRow(userW[w])

RowsFor(tenant, username) ==
  {j \in 1..Len(DataRows(ledgerFile)) :
     /\ DataRows(ledgerFile)[j][1] = Itoa(tenant)
     /\ DataRows(ledgerFile)[j][2] = username}

\* C10: at the end of a fresh run in which no ledger write failed, the ledger
\* is the header followed by exactly one row per failed user Operation, with
\* the Operation's tenant index and the user name prefix + userIndex that
\* was sent; successful user Operations and role Operations have no row.
C10_LedgerHoldsFailedUsers ==
  (pc = "done" /\ ~retryFailed /\ ~fw.err) =>
    /\ ledgerFile.exists
    /\ ledgerFile.rows[1] = LedgerHeader
    /\ Len(DataRows(ledgerFile)) = Cardinality(FailedAttempts)
    /\ \A x \in Attempts :
         LET a == userW[x[1]].log[x[2]]
         IN  /\ a.username = UsernamePrefix \o Itoa(a.index)
             /\ Cardinality(RowsFor(a.tenant, UsernamePrefix \o Itoa(a.index)))
                  = (IF a.ok THEN 0 ELSE 1)
    /\ \A j \in 1..Len(DataRows(ledgerFile)) : Len(DataRows(ledgerFile)[j]) = 4

C10_Witness ==
  /\ pc = "done"
  /\ ~retryFailed
  /\ ~fw.err
  /\ Len(DataRows(ledgerFile)) = 1
  /\ Cardinality(Attempts) = 2
  /\ \E w \in RoleWorkers : \E i \in 1..Len(roleW[w].log) : ~roleW[w].log[i].ok
  /\ DataRows(ledgerFile)[1][1] = <<"4">>
  /\ DataRows(ledgerFile)[1][2] = <<"isTestUser", "_", "9">>

\* ------------------------------------------------ claims about failed calls
\* The i-th Operation of a worker's range, whatever the earlier ones returned.
ExpectedTenant(wk, i) ==
  IF wk.kind = "role" THEN wk.task.Start + i - 1
  ELSE IF wk.kind = "user"
  THEN config.TenantStartNumber + ((i - 1) % config.NoOfTenants)
  ELSE failedUsers[wk.task.Start + i].TenantID

ExpectedIndex(wk, i) ==
  IF wk.kind = "user" THEN wk.task.Start + ((i - 1) \div config.NoOfTenants)
  ELSE wk.task.Start + i - 1

\* C11: a failed remote Operation does not stop anything: every worker works
\* through the Operations of its range in order whatever their results, has
\* attempted all of them when it returns, a failed one is recorded as a
\* failed Outcome (the failed-role counter, a Success = false result on the
\* channel), and the run never ends in an error once workers exist.
C11_FailureIsNonFatal ==
  /\ \A w \in RoleWorkers :
       /\ roleW[w].pc \in {"call", "incLock", "incTotal", "incOutcome", "exit", "done"}
       /\ \A i \in 1..Len(roleW[w].log) :
            roleW[w].log[i].tenant = ExpectedTenant(roleW[w], i)
       /\ roleW[w].pc \in {"exit", "done"} => Len(roleW[w].log) = OperationsOf(roleW[w])
  /\ \A w \in UserWorkers :
       /\ userW[w].pc \in {"call", "wlock", "write", "send", "exit", "done"}
       /\ \A i \in 1..Len(userW[w].log) :
            /\ userW[w].log[i].tenant = ExpectedTenant(userW[w], i)
            /\ userW[w].log[i].index = ExpectedIndex(userW[w], i)
       /\ userW[w].pc \in {"exit", "done"} =>
            /\ Len(userW[w].log) = OperationsOf(userW[w])
            /\ DeliveredFailed(w) = FailedInLog(userW[w])
  /\ AfterRoleJoin =>
       stats.FailedRoles = SumOver([w \in Threads |-> FailedInLog(roleW[w])], Threads)
  /\ (RoleWorkers \cup UserWorkers) /= {} => pc /= "fatal"

C11_Witness ==
  /\ pc = "done"
  /\ \E w \in RoleWorkers :
       /\ Len(roleW[w].log) = 2
       /\ ~roleW[w].log[1].ok
       /\ roleW[w].log[2].tenant = roleW[w].log[1].tenant + 1
  /\ \E w \in UserWorkers :
       /\ Len(userW[w].log) = 2
       /\ ~userW[w].log[1].ok
       /\ ~userW[w].log[2].ok
       /\ DeliveredFailed(w) = 2

\* C12: once a WriteFailedUser call has returned an error, the worker that
\* made it, and every other worker, still sends one Outcome per Operation
\* (Success = false for the failed ones), goes on to the end of its range,
\* and the run does not end in an error; the consumer counts every failed
\* Outcome it takes in FailedUsers.
C12_LedgerWriteErrorIsNonFatal ==
  fw.err =>
    /\ pc /= "fatal"
    /\ \A w \in UserWorkers :
         /\ userW[w].pc \in {"call", "wlock", "write", "send", "exit", "done"}
         /\ Delivered(w) = Reported(userW[w])
         /\ DeliveredFailed(w) = ReportedFailed(userW[w])
         /\ userW[w].pc \in {"exit", "done"} => Len(userW[w].log) = OperationsOf(userW[w])
    /\ consumer.pc \in {"recv", "exited"} =>
         stats.FailedUsers = SumOver([w \in Threads |-> consumer.seen[w].failed], Threads)

C12_Witness ==
  /\ fw.err
  /\ RowsAdded = 0
  /\ \E w \in UserWorkers :
       /\ userW[w].pc = "done"
       /\ userW[w].writes = 2
       /\ FailedInLog(userW[w]) = 2
       /\ DeliveredFailed(w) = 2
  /\ stats.FailedUsers = 2

\* ------------------------------------------------ claims about setup errors
\* C13: a run that ended in an error has spawned no worker, attempted no
\* remote Operation and printed no report; and a run gets past a setup step
\* only if that step's file was opened: the result CSV and (fresh) the ledger
\* in NewTestExecutor, the ledger's append-mode open and its read in
\* ExecuteRetryFailed.
C13_SetupErrorsAbortBeforeWorkers ==
  /\ pc = "fatal" =>
       /\ RoleWorkers = {}
       /\ UserWorkers = {}
       /\ Attempts = {}
       /\ ~resultChan.made
       /\ consumer.pc = "none"
       /\ stats = NewTestStats
       /\ ~report.printed
  /\ pc \notin {"start", "fatal"} => (csvWriter.state /= "nil" /\ scimFile.exists)
  /\ (~retryFailed /\ pc \notin {"start", "fatal"}) =>
       (fw.state /= "nil" /\ ledgerFile.exists)
  /\ (retryFailed /\ pc \notin {"start", "retryOpen", "fatal"}) =>
       (fw.state /= "nil" /\ ledgerFile.exists)
  /\ (retryFailed /\ pc \notin {"start", "retryOpen", "retryRead", "fatal"}) =>
       ~ReadAll(ledgerFile).err

C13_Witness ==
  /\ pc = "fatal"
  /\ retryFailed
  /\ csvWriter.state = "open"
  /\ fw.state = "closed"
  /\ ledgerFile = TruncatedLedger
  /\ UserWorkers = {}

\* ------------------------------------------------------- claims on progress
\* C14: in a run whose goroutines are scheduled fairly and whose remote
\* calls all return, once a worker has been spawned the final statistics
\* report is eventually printed, whichever Operations fail.
C14_ReportEventuallyPrinted ==
  ((RoleWorkers \cup UserWorkers) /= {}) ~> report.printed

C14_Witness ==
  /\ report.printed
  /\ retryFailed
  /\ Cardinality(Attempts) = 2
  /\ FailedAttempts = Attempts
  /\ fw.err

\* ------------------------------------------------- claims about a retry pass
\* C15: for N >= 1 loaded records the retry tasks are slices of the list
\* positions 0..N-1: one per threadID with a non-empty share, of N/threads
\* positions plus one for the threadIDs below N % threads, contiguous from 0,
\* within bounds (UserEnd + 1 <= N), pairwise disjoint, and every position
\* lies in exactly one slice.
C15_RetryPartition ==
  (pOut.loop = "retry" /\ pIn.total >= 1) =>
    LET r == pOut.ranges
        N == pIn.total
    IN  /\ Len(r) = Min(pIn.workers, N)
        /\ \A i \in 1..Len(r) :
             /\ r[i].ThreadID = i - 1
             /\ RangeSize(r[i]) = (N \div pIn.workers)
                                  + (IF r[i].ThreadID < N % pIn.workers THEN 1 ELSE 0)
             /\ 0 <= r[i].Start
             /\ r[i].Start <= r[i].End
             /\ r[i].End + 1 <= N
        /\ r[1].Start = 0
        /\ \A i \in 2..Len(r) : r[i].Start = r[i - 1].End + 1
        /\ r[Len(r)].End = N - 1
        /\ \A pos \in 0..(N - 1) :
             Cardinality({i \in 1..Len(r) : pos \in RangeSet(r[i])}) = 1

C15_Witness ==
  /\ pOut.loop = "retry"
  /\ pIn.total = 7
  /\ pIn.workers = 3
  /\ [i \in 1..3 |-> <<pOut.ranges[i].Start, pOut.ranges[i].End>>]
       = << <<0, 2>>, <<3, 4>>, <<5, 6>> >>

\* The data rows the ledger held when the retry opened it.
RowsAtOpen == DataRows(File(fw.opened))

\* C16: every remote call of a retry pass carries the tenant ID and the user
\* name of the ledger row at the position being replayed, as stored (a row
\* with user name isTestUser_5 is replayed as isTestUser_5, one with a_9 as
\* a_9); no position is replayed twice, and after the join every loaded
\* record has been replayed exactly once.
C16_RetryUsesStoredIdentity ==
  retryFailed =>
    /\ \A x \in Attempts :
         LET a == userW[x[1]].log[x[2]]
         IN  /\ a.index + 1 \in 1..Len(RowsAtOpen)
             /\ Itoa(a.tenant) = RowsAtOpen[a.index + 1][1]
             /\ a.username = RowsAtOpen[a.index + 1][2]
             /\ \A y \in Attempts :
                  userW[y[1]].log[y[2]].index = a.index => y = x
    /\ AfterRetryJoin =>
         /\ Len(failedUsers) = Len(RowsAtOpen)
         /\ \A pos \in 0..(Len(failedUsers) - 1) :
              \E x \in Attempts : userW[x[1]].log[x[2]].index = pos

C16_Witness ==
  /\ retryFailed
  /\ pc = "done"
  /\ \E x \in Attempts :
       /\ userW[x[1]].log[x[2]].username = <<"isTestUser", "_", "5">>
       /\ userW[x[1]].log[x[2]].tenant = 3
  /\ \E x \in Attempts :
       /\ userW[x[1]].log[x[2]].username = <<"a", "_", "9">>
       /\ userW[x[1]].log[x[2]].tenant = 7
       /\ userW[x[1]].result.UserIndex = 9

\* C17: a retry whose ledger holds no data row when it is opened goes from
\* the read straight to the end of the run: no task, channel, consumer or
\* worker is ever created, no remote call is made, the ledger gets no data
\* row, and the six counters stay 0.
C17_EmptyLedgerRetryIsNoOp ==
  (retryFailed /\ fw.state /= "nil" /\ Len(RowsAtOpen) = 0) =>
    /\ pc \in {"retryRead", "close", "done", "fatal"}
    /\ tasks = <<>>
    /\ ~resultChan.made
    /\ consumer.pc = "none"
    /\ RoleWorkers = {}
    /\ UserWorkers = {}
    /\ Attempts = {}
    /\ Len(DataRows(ledgerFile)) = 0
    /\ stats = NewTestStats

C17_Witness ==
  /\ retryFailed
  /\ pc = "done"
  /\ fw.state = "closed"
  /\ Len(RowsAtOpen) = 0
  /\ ledgerFile = File(<<LedgerHeader>>)
  /\ stats = NewTestStats
  /\ UserWorkers = {}

\* C18: when a retry run has found no record to retry, neither CSV file has
\* been opened for writing: both writers are still nil and the two files are
\* as they were before the run.
C18_NoOpRetryOpensNothing ==
  (retryFailed /\ pc \in {"close", "done"} /\ ~resultChan.made) =>
    /\ csvWriter.state = "nil"
    /\ fw.state = "nil"
    /\ ledgerFile \in RetryLedgers
    /\ scimFile = (IF ledgerFile.exists THEN EarlierScimFile ELSE NoFile)

IsPrefix(s, t) == Len(s) <= Len(t) /\ SubSeq(t, 1, Len(s)) = s

\* C19: every step of a retry run leaves the rows the ledger already holds
\* in place and adds at most one row at the end; a row is added to a ledger
\* that has rows only by a worker whose replayed Operation failed again, and
\* the new row carries the tenant ID and user name of the row being replayed,
\* which itself stays where it was.
C19_RetryLedgerAppendOnly ==
  [][retryFailed =>
       /\ IsPrefix(ledgerFile.rows, ledgerFile'.rows)
       /\ Len(ledgerFile'.rows) <= Len(ledgerFile.rows) + 1
       /\ (Len(ledgerFile.rows) > 0 /\ ledgerFile'.rows /= ledgerFile.rows) =>
            \E w \in UserWorkers :
              LET original == ledgerFile.rows[userW[w].u + 2]
                  added    == ledgerFile'.rows[Len(ledgerFile'.rows)]
              IN  /\ userW[w].pc = "write"
                  /\ userW'[w].pc = "send"
                  /\ ~userW[w].result.Success
                  /\ added[1] = original[1]
                  /\ added[2] = original[2]
                  /\ ledgerFile'.rows[userW[w].u + 2] = original]_vars

C19_Witness ==
  /\ retryFailed
  /\ pc = "done"
  /\ fw.opened = EarlierLedger(2).rows
  /\ Len(ledgerFile.rows) = 5
  /\ IsPrefix(EarlierLedger(2).rows, ledgerFile.rows)
  /\ ledgerFile.rows[4][2] = <<"a", "_", "9">>
  /\ ledgerFile.rows[5][2] = <<"isTestUser", "_", "5">>

\* ------------------------------------- claims about the ledger of a fresh run
\* C20: a fresh run started over an earlier run's ledger: right after
\* NewFailedUsersCSVWriter has succeeded the ledger is the header row alone,
\* and from then on to the end of the run it is the header followed only by
\* rows of failed user Operations of this run, never a row of the earlier run.
C20_FreshOpenDiscardsEarlierRows ==
  /\ fw.state /= "nil" => fw.opened = <<LedgerHeader>>
  /\ (pc = "roleLoop" /\ launch = 0) => ledgerFile = File(<<LedgerHeader>>)
  /\ pc \notin {"start", "fatal"} =>
       LET failed == FailedAttempts
       IN  /\ ledgerFile.exists
           /\ Len(ledgerFile.rows) >= 1
           /\ ledgerFile.rows[1] = LedgerHeader
           /\ Len(DataRows(ledgerFile)) <= Cardinality(failed)
           /\ \A j \in 1..Len(DataRows(ledgerFile)) :
                /\ \E x \in failed :
                     DataRows(ledgerFile)[j] =
                       LedgerRecord(userW[x[1]].log[x[2]].tenant,
                                    userW[x[1]].log[x[2]].username, ErrorText, Now)
                /\ \A i \in 1..Len(EarlierFailures) :
                     DataRows(ledgerFile)[j] /= EarlierRow(i)

C20_Witness ==
  /\ pc = "done"
  /\ ~retryFailed
  /\ Cardinality(Attempts) = 2
  /\ FailedAttempts = {}
  /\ ledgerFile = File(<<LedgerHeader>>)

\* ------------------------------------------ the ledger over several runs
\* Runs the ledger is followed through.
MaxRuns == 3

NoLedgerRun == [runs |-> 0, mode |-> "none", before |-> NoFile]

InitLedger ==
  /\ retryFailed = FALSE
  /\ config = [NoOfThreads |-> 1, NoOfUsers |-> 0, NoOfTenants |-> 0,
               UserStartNumber |-> 1, TenantStartNumber |-> 1, RampUpPeriod |-> 0]
  /\ ledgerFile \in {NoFile, File(<<>>)}
  /\ scimFile = NoFile
  /\ pc = "idle"
  /\ csvWriter = [state |-> "nil", buf |-> <<>>]
  /\ fw = [state |-> "nil", err |-> FALSE, opened |-> <<>>]
  /\ fwMutex = Nobody
  /\ stats = NewTestStats
  /\ statsMutex = Nobody
  /\ failedUsers = <<>>
  /\ tasks = <<>>
  /\ launch = 0
  /\ wg = 0
  /\ resultChan = NoChan
  /\ roleW = [w \in Threads |-> NoWorker]
  /\ userW = [w \in Threads |-> NoWorker]
  /\ consumer = NoConsumer
  /\ report = NoReport
  /\ pIn = NoLedgerRun
  /\ pOut = <<>>

ledgerKept == <<config, pc, scimFile, csvWriter, fwMutex, stats, statsMutex,
                failedUsers, tasks, launch, wg, resultChan, roleW, userW, consumer,
                report, pOut>>

\* A run opens the ledger; pIn keeps the file as the run found it.
OpenLedger(mode, outcomes) ==
  /\ fw.state /= "open"
  /\ pIn.runs < MaxRuns
  /\ retryFailed' = mode
  /\ pIn' = [runs |-> pIn.runs + 1, mode |-> IF mode THEN "append" ELSE "fresh",
             before |-> ledgerFile]
  /\ \E f \in outcomes :
       /\ ledgerFile' = f.file
       /\ fw' = IF f.err THEN [state |-> "nil", err |-> FALSE, opened |-> <<>>]
                ELSE [state |-> "open", err |-> FALSE, opened |-> f.file.rows]
  /\ UNCHANGED ledgerKept

\* A fresh run: NewFailedUsersCSVWriter.
LedgerOpenFresh == OpenLedger(FALSE, NewFailedUsersCSVWriterOutcomes(ledgerFile))

\* A retry run: NewFailedUsersCSVWriterAppend.
LedgerOpenAppend == OpenLedger(TRUE, NewFailedUsersCSVWriterAppendOutcomes(ledgerFile))

\* WriteFailedUser for one failed Operation of the run; the rows of one run
\* are alike and differ from the rows of the run before.
LedgerWriteFailedUser ==
  /\ fw.state = "open"
  /\ Len(ledgerFile.rows) - Len(fw.opened) < MaxLedger
  /\ \E fail \in BOOLEAN :
       IF fw.err \/ fail
       THEN /\ fw' = [fw EXCEPT !.err = TRUE]
            /\ ledgerFile' = ledgerFile
       ELSE /\ ledgerFile' = File(Append(ledgerFile.rows, EarlierRow(pIn.runs)))
            /\ fw' = fw
  /\ UNCHANGED <<ledgerKept, retryFailed, pIn>>

\* FailedUsersCSVWriter.Close at the end of the run.
LedgerClose ==
  /\ fw.state = "open"
  /\ fw' = [fw EXCEPT !.state = "closed"]
  /\ UNCHANGED <<ledgerKept, retryFailed, ledgerFile, pIn>>

NextLedger == LedgerOpenFresh \/ LedgerOpenAppend \/ LedgerWriteFailedUser \/ LedgerClose

SpecLedger == InitLedger /\ [][NextLedger]_vars

HeaderRows(rows) == {i \in 1..Len(rows) : rows[i] = LedgerHeader}

\* C21: an append open leaves the rows it found unchanged and adds the header
\* row exactly when it found none (no file, or an empty one); whatever the
\* sequence of fresh and retry runs, a ledger that has rows has exactly one
\* header row, and it is the first row.
C21_AppendOpenKeepsOneHeader ==
  /\ (fw.state = "open" /\ pIn.mode = "append") =>
       /\ fw.opened = (IF Len(pIn.before.rows) = 0 THEN <<LedgerHeader>>
                       ELSE pIn.before.rows)
       /\ IsPrefix(fw.opened, ledgerFile.rows)
  /\ fw.state = "open" => Len(ledgerFile.rows) > 0
  /\ Len(ledgerFile.rows) > 0 => HeaderRows(ledgerFile.rows) = {1}

\* The third run is a retry run that found rows of two earlier runs and has
\* added its own.
C21_Witness ==
  /\ pIn.runs = MaxRuns
  /\ pIn.mode = "append"
  /\ fw.state = "open"
  /\ Len(pIn.before.rows) >= 3
  /\ Len(ledgerFile.rows) > Len(pIn.before.rows)

\* ------------------------------------------------- the ledger as CSV text
\* A string is a sequence of characters; a longer token stands for a run of
\* characters that are none of comma, quote, CR, LF, space, tab, backslash.
\* csv.Writer.fieldNeedsQuotes with Comma = ','.
fieldNeedsQuotes(field) ==
  /\ Len(field) > 0
  /\ \/ field = <<"\\", ".">>
     \/ \E i \in 1..Len(field) : field[i] \in {"\n", "\r", "\"", ","}
     \/ field[1] \in {" ", "\t"}

\* The body of a quoted field: a quote is doubled, CR and LF are written as
\* they are (UseCRLF is false).
RECURSIVE quotedBody(_)
quotedBody(field) ==
  IF field = <<>> THEN <<>>
  ELSE (IF Head(field) = "\"" THEN <<"\"", "\"">> ELSE <<Head(field)>>)
         \o quotedBody(Tail(field))

csvField(field) ==
  IF fieldNeedsQuotes(field) THEN <<"\"">> \o quotedBody(field) \o <<"\"">> ELSE field

\* csv.Writer.Write: the fields separated by commas, then a line feed.
RECURSIVE csvWrite(_)
csvWrite(record) ==
  IF Len(record) = 0 THEN <<"\n">>
  ELSE csvField(Head(record))
         \o (IF Len(record) > 1 THEN <<",">> ELSE <<>>) \o csvWrite(Tail(record))

\* csv.Reader.readLine turns the CR LF that ends a line into LF, on every line
\* it reads, the continuation lines of a quoted field included.
RECURSIVE readLines(_)
readLines(text) ==
  IF text = <<>> THEN <<>>
  ELSE IF Len(text) >= 2 /\ text[1] = "\r" /\ text[2] = "\n"
       THEN <<"\n">> \o readLines(SubSeq(text, 3, Len(text)))
       ELSE <<Head(text)>> \o readLines(Tail(text))

\* csv.Reader.readRecord over the lines, record after record (LazyQuotes and
\* TrimLeadingSpace are off, Comma is ','). at: "start" of a field, in a
\* "bare" field, in a "quoted" field, or after a "quote" inside a quoted one.
RECURSIVE readRecords(_, _, _, _, _, _)
readRecords(text, i, at, field, record, records) ==
  IF i > Len(text)
  THEN IF at = "quoted" THEN [err |-> TRUE, records |-> <<>>]
       ELSE IF at = "start" /\ record = <<>> THEN [err |-> FALSE, records |-> records]
       ELSE [err |-> FALSE, records |-> Append(records, Append(record, field))]
  ELSE
    LET c == text[i]
        endField == readRecords(text, i + 1, "start", <<>>, Append(record, field), records)
        endRecord == readRecords(text, i + 1, "start", <<>>, <<>>,
                                 Append(records, Append(record, field)))
        bad == [err |-> TRUE, records |-> <<>>]
    IN  CASE at = "start" ->
               IF c = "\"" THEN readRecords(text, i + 1, "quoted", <<>>, record, records)
               ELSE IF c = "," THEN endField
               ELSE IF c = "\n"
                    THEN IF record = <<>>
                         THEN readRecords(text, i + 1, "start", <<>>, <<>>, records)
                         ELSE endRecord
               ELSE readRecords(text, i + 1, "bare", <<c>>, record, records)
          [] at = "bare" ->
               IF c = "," THEN endField
               ELSE IF c = "\n" THEN endRecord
               ELSE IF c = "\"" THEN bad
               ELSE readRecords(text, i + 1, "bare", Append(field, c), record, records)
          [] at = "quoted" ->
               IF c = "\"" THEN readRecords(text, i + 1, "quote", field, record, records)
               ELSE readRecords(text, i + 1, "quoted", Append(field, c), record, records)
          [] at = "quote" ->
               IF c = "\"" THEN readRecords(text, i + 1, "quoted", Append(field, c),
                                            record, records)
               ELSE IF c = "," THEN endField
               ELSE IF c = "\n" THEN endRecord
               ELSE bad

\* os.Open and csv.Reader.ReadAll of readFailedUsersFromCSV, then the rest of
\* it over the records read.
readFailedUsersFromText(text) ==
  LET all == readRecords(readLines(text), 1, "start", <<>>, <<>>, <<>>)
  IN  IF all.err THEN [err |-> TRUE, users |-> <<>>]
      ELSE readFailedUsersFromCSV(File(all.records))

\* Error texts of failed remote calls: the last part of one is the body of
\* the server's response.
ErrorTexts ==
  { ErrorText,
    <<"status", " ", "500", ":", " ", "{", "\"", "detail", "\"", "}">>,
    <<"status", " ", "409", ":", " ", "a", ",", "b">>,
    <<"status", " ", "502", ":", " ", "Bad", "\n", "Gateway">>,
    <<"status", " ", "502", ":", " ", "Bad", "\r", "\n", "Gateway">>,
    <<" ", "x">>,
    <<>> }

FailedUserCalls ==
  [tenantID : {3, 12}, username : {<<"isTestUser", "_", "5">>, <<"a", ",", "b">>},
   errorMsg : ErrorTexts, timestamp : {Now}]

InitCsv ==
  /\ IdleRun
  /\ pIn \in {<<>>} \cup {<<a>> : a \in FailedUserCalls}
              \cup {<<a, b>> : a \in FailedUserCalls, b \in FailedUserCalls}
  /\ pOut = [at |-> "new", text |-> <<>>, written |-> 0, read |-> [err |-> FALSE, users |-> <<>>]]

\* NewFailedUsersCSVWriter on a fresh ledger: the header, flushed.
CsvNewWriter ==
  /\ pOut.at = "new"
  /\ pOut' = [pOut EXCEPT !.at = "open", !.text = csvWrite(LedgerHeader)]
  /\ UNCHANGED <<runVars, pIn>>

\* WriteFailedUser for the next call of pIn: Write and Flush.
CsvWriteFailedUser ==
  /\ pOut.at = "open"
  /\ pOut.written < Len(pIn)
  /\ LET call == pIn[pOut.written + 1]
     IN  pOut' = [pOut EXCEPT
                    !.text = @ \o csvWrite(LedgerRecord(call.tenantID, call.username,
                                                        call.errorMsg, call.timestamp)),
                    !.written = @ + 1]
  /\ UNCHANGED <<runVars, pIn>>

\* readFailedUsersFromCSV once every call has written.
CsvRead ==
  /\ pOut.at = "open"
  /\ pOut.written = Len(pIn)
  /\ pOut' = [pOut EXCEPT !.at = "read", !.read = readFailedUsersFromText(pOut.text)]
  /\ UNCHANGED <<runVars, pIn>>

NextCsv == CsvNewWriter \/ CsvWriteFailedUser \/ CsvRead

SpecCsv == InitCsv /\ [][NextCsv]_vars

\* C22: after any sequence of WriteFailedUser calls on a fresh ledger,
\* readFailedUsersFromCSV returns without error exactly the records written,
\* in write order, each with its tenant, username, error and timestamp, the
\* header row left out.
C22_LedgerRoundTrip ==
  pOut.at = "read" =>
    /\ ~pOut.read.err
    /\ pOut.read.users =
         [k \in 1..Len(pIn) |-> [TenantID |-> pIn[k].tenantID, Username |-> pIn[k].username,
                                 Error |-> pIn[k].errorMsg, Timestamp |-> pIn[k].timestamp]]

\* ------------------------------------------- reading a ledger with short rows
\* Rows a ledger is made of: two rows as WriteFailedUser writes them, and
\* rows cut short after one, two or three fields.
LedgerRows ==
  {EarlierRow(1), EarlierRow(2)} \cup {SubSeq(EarlierRow(2), 1, n) : n \in 1..3}

RECURSIVE csvWriteAll(_)
csvWriteAll(rows) ==
  IF rows = <<>> THEN <<>> ELSE csvWrite(Head(rows)) \o csvWriteAll(Tail(rows))

InitRead ==
  /\ IdleRun
  /\ pIn \in UNION {[1..n -> LedgerRows] : n \in 1..3}
  /\ pOut = [at |-> "file", read |-> [err |-> FALSE, users |-> <<>>]]

\* readFailedUsersFromCSV of the ledger that is the header row and then pIn.
ReadLedger ==
  /\ pOut.at = "file"
  /\ pOut' = [at |-> "read",
              read |-> readFailedUsersFromText(csvWriteAll(<<LedgerHeader>> \o pIn))]
  /\ UNCHANGED <<runVars, pIn>>

SpecRead == InitRead /\ [][ReadLedger]_vars

\* Indexes of the rows of pIn that have all four fields, in file order.
RECURSIVE WellFormed(_, _)
WellFormed(rows, i) ==
  IF i > Len(rows) THEN <<>>
  ELSE (IF Len(rows[i]) >= 4 THEN <<i>> ELSE <<>>) \o WellFormed(rows, i + 1)

\* C23: readFailedUsersFromCSV of a ledger that has a header row and, among
\* its well-formed rows, rows of fewer than four fields returns without an
\* error and returns the well-formed rows in file order, the header and the
\* short rows left out.
C23_ShortRowsAreSkipped ==
  (pOut.at = "read" /\ \E i \in 1..Len(pIn) : Len(pIn[i]) < 4) =>
    /\ ~pOut.read.err
    /\ LET good == WellFormed(pIn, 1)
       IN  /\ Len(pOut.read.users) = Len(good)
           /\ \A k \in 1..Len(good) :
                LedgerRecord(pOut.read.users[k].TenantID, pOut.read.users[k].Username,
                             pOut.read.users[k].Error, pOut.read.users[k].Timestamp)
                  = pIn[good[k]]

\* ------------------------------------------ concurrent WriteFailedUser calls
\* A worker whose Operations all go to WriteFailedUser when they fail: worker
\* w has the users w * MaxOps + 1 .. (w + 1) * MaxOps under tenant w + 1.
LedgerWriter(w) ==
  [pc |-> "call", kind |-> "user", u |-> w * MaxOps + 1, t |-> w + 1, field |-> 0]

InitWriters ==
  /\ retryFailed = FALSE
  /\ config = [NoOfThreads |-> MaxThreads, NoOfUsers |-> MaxThreads * MaxOps,
               NoOfTenants |-> 1, UserStartNumber |-> 1, TenantStartNumber |-> 1,
               RampUpPeriod |-> 0]
  /\ ledgerFile = File(<<LedgerHeader>>)
  /\ scimFile = File(<<>>)
  /\ pc = "userWait"
  /\ csvWriter = [state |-> "open", buf |-> <<ScimHeader>>]
  /\ fw = [state |-> "open", err |-> FALSE, opened |-> <<LedgerHeader>>,
           line |-> <<>>, lines |-> <<>>]
  /\ fwMutex = Nobody
  /\ stats = NewTestStats
  /\ statsMutex = Nobody
  /\ failedUsers = <<>>
  /\ tasks = <<>>
  /\ launch = MaxThreads
  /\ wg = MaxThreads
  /\ resultChan = NoChan
  /\ roleW = [w \in Threads |-> NoWorker]
  /\ userW = [w \in Threads |-> LedgerWriter(w)]
  /\ consumer = NoConsumer
  /\ report = NoReport
  /\ pIn = <<>>
  /\ pOut = <<>>

writersKept == <<config, retryFailed, pc, scimFile, csvWriter, stats, statsMutex,
                 failedUsers, tasks, launch, wg, resultChan, roleW, consumer, report,
                 pIn, pOut>>

\* The worker's next Operation, or its end.
AfterOperation(wk, w) ==
  IF wk.u < (w + 1) * MaxOps
  THEN [wk EXCEPT !.pc = "call", !.u = @ + 1, !.field = 0]
  ELSE [wk EXCEPT !.pc = "exit", !.field = 0]

\* CreateUser returns: with an error the worker goes on to WriteFailedUser.
WriterCall(w) ==
  /\ userW[w].pc = "call"
  /\ \E ok \in BOOLEAN :
       userW' = [userW EXCEPT ![w] = IF ok THEN AfterOperation(@, w)
                                     ELSE [@ EXCEPT !.pc = "wlock"]]
  /\ UNCHANGED <<writersKept, ledgerFile, fw, fwMutex>>

\* fw.mutex.Lock() of WriteFailedUser.
WriterLock(w) ==
  /\ userW[w].pc = "wlock"
  /\ MutexFree(fwMutex)
  /\ fwMutex' = UserHolder(w)
  /\ userW' = [userW EXCEPT ![w].pc = "field", ![w].field = 1]
  /\ UNCHANGED <<writersKept, ledgerFile, fw>>

\* csv.Writer.Write puts the record into the writer's buffer field after
\* field and ends the line after the last one.
WriterField(w) ==
  /\ userW[w].pc = "field"
  /\ LET wk    == userW[w]
         line  == Append(fw.line, FailedRow(wk)[wk.field])
     IN  IF wk.field < 4
         THEN /\ fw' = [fw EXCEPT !.line = line]
              /\ userW' = [userW EXCEPT ![w].field = @ + 1]
         ELSE /\ fw' = [fw EXCEPT !.line = <<>>, !.lines = Append(@, line)]
              /\ userW' = [userW EXCEPT ![w].pc = "flush"]
  /\ UNCHANGED <<writersKept, ledgerFile, fwMutex>>

\* fw.writer.Flush() hands the buffered lines to the file; then the return
\* and the deferred fw.mutex.Unlock().
WriterFlush(w) ==
  /\ userW[w].pc = "flush"
  /\ ledgerFile' = File(ledgerFile.rows \o fw.lines)
  /\ fw' = [fw EXCEPT !.lines = <<>>]
  /\ fwMutex' = Nobody
  /\ userW' = [userW EXCEPT ![w] = AfterOperation(@, w)]
  /\ UNCHANGED writersKept

NextWriters ==
  \E w \in Threads : WriterCall(w) \/ WriterLock(w) \/ WriterField(w) \/ WriterFlush(w)

SpecWriters == InitWriters /\ [][NextWriters]_vars

\* Workers inside the write-and-flush section of WriteFailedUser.
InWriteSection == {w \in Threads : userW[w].pc \in {"field", "flush"}}

\* The records WriteFailedUser is called with: a worker's tenant with a user
\* of that worker.
CallRecords ==
  UNION {{LedgerRecord(w + 1, GetTestUsername(u), ErrorText, Now) :
            u \in (w * MaxOps + 1)..((w + 1) * MaxOps)} : w \in Threads}

\* C24: at most one worker is inside the write-and-flush section of
\* WriteFailedUser at any time; every row of the ledger, and every line still
\* in the writer's buffer, is the complete four-field record of one call, and
\* a line being written holds fields of the one call that is writing it.
C24_LedgerWritesExclusive ==
  /\ Cardinality(InWriteSection) <= 1
  /\ \A w \in InWriteSection : fwMutex = UserHolder(w)
  /\ \A i \in 2..Len(ledgerFile.rows) :
       Len(ledgerFile.rows[i]) = 4 /\ ledgerFile.rows[i] \in CallRecords
  /\ \A i \in 1..Len(fw.lines) : fw.lines[i] \in CallRecords
  /\ fw.line /= <<>> =>
       \E w \in InWriteSection :
         fw.line = SubSeq(FailedRow(userW[w]), 1, userW[w].field - 1)

\* A worker is half way through its record while another one, whose
\* Operation failed too, waits for the mutex, and the ledger has a row already.
C24_Witness ==
  /\ \E w \in Threads : userW[w].pc = "field" /\ Len(fw.line) = 2
  /\ \E w \in Threads : userW[w].pc = "wlock"
  /\ Len(ledgerFile.rows) >= 2

\* ------------------------------------------------- the launch loop in time
\* RampUpPeriod, in seconds. A fresh run reaches its user-creation phase
\* only with NoOfThreads > 0 (ExecuteRoleCreation divides by it before); a
\* retry run reaches its phase with any NoOfThreads when there is a record.
RampWindows == {0, 1}

RampConfigs ==
  {[NoOfThreads |-> t, NoOfUsers |-> n, NoOfTenants |-> 1, UserStartNumber |-> 1,
    TenantStartNumber |-> 1, RampUpPeriod |-> p] :
      t \in 0..MaxThreads, n \in 0..(MaxOps + 1), p \in RampWindows}

NoClock == [now |-> 0, d |-> 0, until |-> 0, started |-> <<>>]

InitRamp ==
  /\ retryFailed \in BOOLEAN
  /\ config \in {c \in RampConfigs : IF retryFailed THEN c.NoOfUsers > 0
                                      ELSE c.NoOfThreads > 0}
  /\ ledgerFile = EarlierLedger(IF retryFailed THEN config.NoOfUsers ELSE 0)
  /\ scimFile = File(<<>>)
  /\ pc = "rampSetup"
  /\ csvWriter = [state |-> "open", buf |-> <<ScimHeader>>]
  /\ fw = [state |-> "open", err |-> FALSE, opened |-> ledgerFile.rows]
  /\ fwMutex = Nobody
  /\ stats = NewTestStats
  /\ statsMutex = Nobody
  /\ failedUsers = (IF retryFailed THEN readFailedUsersFromCSV(ledgerFile).users ELSE <<>>)
  /\ tasks = <<>>
  /\ launch = 0
  /\ wg = 0
  /\ resultChan = NoChan
  /\ roleW = [w \in Threads |-> NoWorker]
  /\ userW = [w \in Threads |-> NoWorker]
  /\ consumer = NoConsumer
  /\ report = NoReport
  /\ pIn = <<>>
  /\ pOut = NoClock

rampKept == <<config, retryFailed, ledgerFile, scimFile, csvWriter, fw, fwMutex, stats,
              statsMutex, failedUsers, resultChan, roleW, consumer, report, pIn>>

\* ExecuteUserCreation / ExecuteRetryFailed up to the spawn loop: the tasks,
\* and rampUpDelay, computed here and nowhere else. The first statement
\* divides by NoOfThreads: an integer division by zero panics.
RampSetup ==
  /\ pc = "rampSetup"
  /\ IF config.NoOfThreads = 0
     THEN /\ pc' = "panic"
          /\ UNCHANGED <<tasks, pOut>>
     ELSE /\ tasks' = (IF retryFailed
                       THEN RetryTasks(Len(failedUsers), config.NoOfThreads)
                       ELSE UserTasks(config.NoOfUsers, config.NoOfThreads,
                                      config.UserStartNumber))
          /\ pOut' = [pOut EXCEPT !.d = RampUpDelay(config)]
          /\ pc' = (IF Len(tasks') > 0 THEN "rampSpawn" ELSE "rampWait")
  /\ UNCHANGED <<rampKept, launch, wg, userW>>

\* One iteration of the spawn loop: wg.Add(1) and the go statement; the
\* worker starts at the time it is.
RampSpawn ==
  /\ pc = "rampSpawn"
  /\ LET task == tasks[launch + 1]
     IN  /\ wg' = wg + 1
         /\ userW' = [userW EXCEPT ![task.ThreadID] =
                        IF retryFailed THEN StartRetryWorker(task)
                        ELSE StartUserWorker(task, config)]
         /\ pOut' = [pOut EXCEPT !.started =
                       Append(@, [ThreadID |-> task.ThreadID, at |-> pOut.now])]
  /\ launch' = launch + 1
  /\ pc' = AfterSpawn("rampSleep", "rampSpawn", "rampWait")
  /\ UNCHANGED <<rampKept, tasks>>

\* time.Sleep(rampUpDelay) is called: it returns no earlier than rampUpDelay
\* from now.
RampSleep ==
  /\ pc = "rampSleep"
  /\ pOut' = [pOut EXCEPT !.until = pOut.now + pOut.d]
  /\ pc' = "rampSleeping"
  /\ UNCHANGED <<rampKept, tasks, launch, wg, userW>>

\* time.Sleep returns.
RampWake ==
  /\ pc = "rampSleeping"
  /\ pOut.now >= pOut.until
  /\ pc' = (IF launch < Len(tasks) THEN "rampSpawn" ELSE "rampWait")
  /\ UNCHANGED <<rampKept, tasks, launch, wg, userW, pOut>>

\* Time passes: by half a delay, by a whole one, or up to the time the sleep
\* ends. The launcher is kept at most half a delay behind its sleeps.
RampTick ==
  /\ pc \in {"rampSpawn", "rampSleeping", "rampWait"}
  /\ \E step \in {GoDiv(pOut.d, 2), pOut.d, pOut.until - pOut.now} :
       /\ step > 0
       /\ step <= (IF pc = "rampSleeping" THEN pOut.until
                   ELSE launch * pOut.d + GoDiv(pOut.d, 2)) - pOut.now
       /\ pOut' = [pOut EXCEPT !.now = @ + step]
  /\ UNCHANGED <<rampKept, pc, tasks, launch, wg, userW>>

\* A worker attempts its next Operation, at the time it is, and goes on to
\* the one after it or to its end.
RampOperation(w) ==
  /\ userW[w].pc = "call"
  /\ userW' = [userW EXCEPT ![w].log = Append(@, [at |-> pOut.now]),
                            ![w].u = @ + 1,
                            ![w].pc = IF userW[w].u < userW[w].task.End THEN "call"
                                      ELSE "exit"]
  /\ UNCHANGED <<rampKept, pc, tasks, launch, wg, pOut>>

\* The deferred wg.Done() of a worker.
RampWorkerExit(w) ==
  /\ userW[w].pc = "exit"
  /\ userW' = [userW EXCEPT ![w].pc = "done"]
  /\ wg' = wg - 1
  /\ UNCHANGED <<rampKept, pc, tasks, launch, pOut>>

\* wg.Wait() returns.
RampWait ==
  /\ pc = "rampWait"
  /\ WaitReturns(wg)
  /\ pc' = "rampDone"
  /\ UNCHANGED <<rampKept, tasks, launch, wg, userW, pOut>>

NextRamp ==
  \/ RampSetup \/ RampSpawn \/ RampSleep \/ RampWake \/ RampTick \/ RampWait
  \/ \E w \in Threads : RampOperation(w) \/ RampWorkerExit(w)

SpecRamp == InitRamp /\ [][NextRamp]_vars

\* C25: in the user-creation and the retry phase the launcher starts the
\* workers one at a time in ascending order of their owner; the delay d is the
\* ramp-up window divided by the worker count, computed once; d passes after
\* every spawn, the last one included, so the i-th worker started (from 0)
\* starts no earlier than i * d after the launch began; a worker's next
\* Operation is held up by nothing once the worker has started.
C25_RampUpSpacesLaunches ==
  pc \notin {"rampSetup", "panic"} =>
    LET d == pOut.d
        n == Len(pOut.started)
    IN  /\ d * config.NoOfThreads <= config.RampUpPeriod * Second
        /\ (d + 1) * config.NoOfThreads > config.RampUpPeriod * Second
        /\ n = launch
        /\ \A i \in 1..n :
             /\ pOut.started[i].ThreadID = tasks[i].ThreadID
             /\ i > 1 => pOut.started[i].ThreadID > pOut.started[i - 1].ThreadID
             /\ i > 1 => pOut.started[i].at - pOut.started[i - 1].at >= d
             /\ pOut.started[i].at >= (i - 1) * d
        /\ pc \in {"rampWait", "rampDone"} => pOut.now >= Len(tasks) * d
        /\ \A w \in Threads :
             /\ userW[w].pc = "call" => ENABLED RampOperation(w)
             /\ \A k \in 1..Len(userW[w].log) :
                  \E i \in 1..n : /\ pOut.started[i].ThreadID = w
                                  /\ userW[w].log[k].at >= pOut.started[i].at

\* With a delay of half a second the second worker started half a second after
\* the first, which attempted its two Operations at one and the same time.
C25_Witness ==
  /\ pOut.d > 0
  /\ Len(pOut.started) = 2
  /\ pOut.started[2].at = pOut.started[1].at + pOut.d
  /\ \E w \in Threads :
       /\ Len(userW[w].log) = 2
       /\ userW[w].log[1].at = userW[w].log[2].at

\* C26: with a worker count (NoOfThreads) of 0 or a ramp-up window
\* (RampUpPeriod) of 0 the phase does not fault, the delay is 0, the launcher
\* does not sleep, and the workers, if any, all start at the time the launch
\* began.
C26_ZeroCountOrWindowIsHarmless ==
  (config.NoOfThreads = 0 \/ config.RampUpPeriod = 0) =>
    /\ pc /= "panic"
    /\ pc \notin {"rampSleep", "rampSleeping"}
    /\ pOut.d = 0
    /\ \A i \in 1..Len(pOut.started) : pOut.started[i].at = 0

\* --------------------------------------------- a remote call that hangs
\* pIn names a worker and the number of calls of it that return: its next
\* call to CreateUser never returns.
Stalled(w) == pIn.stalled = w /\ Len(userW[w].log) = pIn.at

InitStall ==
  /\ InitRun(FALSE)
  /\ ledgerFile = NoFile
  /\ pIn \in [stalled : Threads, at : 0..(MaxOps - 1)]
  /\ pOut = <<>>

\* CreateUser returns, unless it is the call that hangs.
ReturningUserCall(w) == ~Stalled(w) /\ UserCall(w)

StallMainStep ==
  \/ NewTestExecutor
  \/ RoleSpawn
  \/ RoleWait
  \/ UserSetup
  \/ UserSpawn
  \/ UserSleep
  \/ UserWait
  \/ UserClose
  \/ PrintStats
  \/ ExecutorClose

StallWorkerStep(w) ==
  ReturningUserCall(w) \/ WriteLock(w) \/ WriteRecord(w) \/ Send(w) \/ WorkerExit(w)

NextStall ==
  \/ StallMainStep
  \/ \E w \in Threads : RoleWorkerStep(w)
  \/ \E w \in Threads : StallWorkerStep(w)
  \/ ConsumerStep

\* The Go scheduler lets every goroutine that can run do so; every remote
\* call but the hanging one returns.
StallFairness ==
  /\ WF_vars(StallMainStep)
  /\ \A w \in Threads : WF_vars(RoleWorkerStep(w)) /\ WF_vars(StallWorkerStep(w))
  /\ WF_vars(ConsumerStep)

SpecStall == InitStall /\ [][NextStall]_vars /\ StallFairness

\* The worker pIn names has a call that hangs among the Operations of its range.
WillStall ==
  /\ userW[pIn.stalled].kind = "user"
  /\ OperationsOf(userW[pIn.stalled]) > pIn.at

\* Worker w has attempted every Operation of its range, has sent an Outcome
\* for each and has returned.
Finished(w) ==
  /\ userW[w].pc = "done"
  /\ Len(userW[w].log) = OperationsOf(userW[w])
  /\ Delivered(w) = OperationsOf(userW[w])

\* C27: when one worker's remote call never returns and the goroutines are
\* scheduled fairly, every other spawned worker attempts all Operations of its
\* range, sends their Outcomes and returns; the stalled worker attempts no
\* Operation after the hanging one and the executor never gets past its join.
C27_StallIsLocal ==
  /\ [](WillStall => /\ Len(userW[pIn.stalled].log) <= pIn.at
                     /\ ~AfterUserJoin)
  /\ \A w \in Threads :
       (userW[w].kind = "user" /\ ~(WillStall /\ pIn.stalled = w)) ~> Finished(w)

\* Worker 0 hangs in its first call; worker 1 has finished its range and the
\* executor waits at the join.
C27_Witness ==
  /\ WillStall
  /\ pIn.stalled = 0
  /\ userW[0].pc = "call"
  /\ Len(userW[0].log) = pIn.at
  /\ Finished(1)
  /\ OperationsOf(userW[1]) > 0
  /\ pc = "userWait"

\* -------------------------------------------------- the workers' clients
\* Config.GetTenantUsername
GetTenantUsername(tenantIndex) ==
  <<"admin@wso2.com", "@", "tenant">> \o Itoa(tenantIndex) \o <<".com">>

\* NewHTTPClient's result: a client of its own, with the server credentials.
\* The heap of clients grows by one; the new handle is its last index.
NewHTTPClient_Shared(clients) ==
  IF Len(clients) = 0
  THEN [clients |-> <<[username |-> <<"admin@wso2.com">>]>>, handle |-> 1]
  ELSE [clients |-> clients, handle |-> 1]

NewHTTPClient(clients) ==
  [clients |-> Append(clients, [username |-> <<"admin@wso2.com">>]),
   handle |-> Len(clients) + 1]

PhaseKinds == {"role", "user", "retry"}

InitClients ==
  /\ pIn \in PhaseKinds
  /\ retryFailed = (pIn = "retry")
  /\ config \in {[NoOfThreads |-> t, NoOfUsers |-> u, NoOfTenants |-> k,
                  UserStartNumber |-> 1, TenantStartNumber |-> 1, RampUpPeriod |-> 0] :
                    t \in 1..MaxThreads, u \in 1..MaxOps, k \in 1..MaxOps}
  /\ ledgerFile = EarlierLedger(IF retryFailed THEN config.NoOfUsers ELSE 0)
  /\ scimFile = File(<<>>)
  /\ pc = "spawn"
  /\ csvWriter = [state |-> "open", buf |-> <<ScimHeader>>]
  /\ fw = [state |-> "open", err |-> FALSE, opened |-> ledgerFile.rows]
  /\ fwMutex = Nobody
  /\ stats = NewTestStats
  /\ statsMutex = Nobody
  /\ failedUsers = (IF retryFailed THEN readFailedUsersFromCSV(ledgerFile).users ELSE <<>>)
  /\ tasks = (CASE pIn = "role" ->
                     RoleRanges(config.NoOfTenants, config.NoOfThreads,
                                config.TenantStartNumber)
                [] pIn = "user" ->
                     UserTasks(config.NoOfUsers, config.NoOfThreads, config.UserStartNumber)
                [] pIn = "retry" -> RetryTasks(Len(failedUsers), config.NoOfThreads))
  /\ launch = 0
  /\ wg = 0
  /\ resultChan = NoChan
  /\ roleW = [w \in Threads |-> NoWorker]
  /\ userW = [w \in Threads |-> NoWorker]
  /\ consumer = NoConsumer
  /\ report = NoReport
  /\ pOut = [clients |-> <<>>, handle |-> [w \in Threads |-> 0]]

clientsKept == <<config, retryFailed, ledgerFile, scimFile, csvWriter, fw, fwMutex, stats,
                 statsMutex, failedUsers, tasks, resultChan, roleW, consumer, report, pIn>>

\* One task of the phase: NewHTTPClient for it and, when the task is to be
\* started, the go statement that hands the client to the worker.
ClientSpawn ==
  /\ pc = "spawn"
  /\ launch < Len(tasks)
  /\ LET task == tasks[launch + 1]
         new  == NewHTTPClient(pOut.clients)
     IN  IF task.spawn
         THEN /\ pOut' = [clients |-> new.clients,
                          handle |-> [pOut.handle EXCEPT ![task.ThreadID] = new.handle]]
              /\ userW' = [userW EXCEPT ![task.ThreadID] =
                             CASE pIn = "role" -> StartRoleWorker(task)
                               [] pIn = "user" -> StartUserWorker(task, config)
                               [] pIn = "retry" -> StartRetryWorker(task)]
              /\ wg' = wg + 1
         ELSE UNCHANGED <<pOut, userW, wg>>
  /\ launch' = launch + 1
  /\ UNCHANGED <<clientsKept, pc>>

\* The tenant of the worker's current Operation.
OperationTenant(wk) ==
  IF wk.kind = "retry" THEN failedUsers[wk.u + 1].TenantID ELSE wk.t

\* CreateRole / CreateUserWithName begins: h.SetTenantCredentials(tenantIndex)
\* writes the tenant's user name into the worker's client.
ClientSetTenantCredentials(w) ==
  /\ userW[w].pc = "call"
  /\ pOut' = [pOut EXCEPT !.clients[pOut.handle[w]].username =
                GetTenantUsername(OperationTenant(userW[w]))]
  /\ userW' = [userW EXCEPT ![w].pc = "request"]
  /\ UNCHANGED <<clientsKept, pc, launch, wg>>

\* The request is built: getBasicAuthHeader reads the user name in the
\* worker's client; then the worker goes on to its next Operation.
ClientRequest(w) ==
  /\ userW[w].pc = "request"
  /\ LET wk   == userW[w]
         sent == [wk EXCEPT !.log = Append(@, [tenant |-> OperationTenant(wk),
                    auth |-> pOut.clients[pOut.handle[w]].username])]
     IN  userW' = [userW EXCEPT ![w] =
           IF wk.kind = "role"
           THEN IF wk.t + 1 <= wk.task.End
                THEN [sent EXCEPT !.t = @ + 1, !.pc = "call"]
                ELSE [sent EXCEPT !.pc = "exit"]
           ELSE NextOperation(sent, config)]
  /\ UNCHANGED <<clientsKept, pc, launch, wg, pOut>>

\* The worker returns: the deferred wg.Done().
ClientWorkerExit(w) ==
  /\ userW[w].pc = "exit"
  /\ userW' = [userW EXCEPT ![w].pc = "done"]
  /\ wg' = wg - 1
  /\ UNCHANGED <<clientsKept, pc, launch, pOut>>

\* wg.Wait() returns after the last spawn.
ClientWait ==
  /\ pc = "spawn"
  /\ launch = Len(tasks)
  /\ WaitReturns(wg)
  /\ pc' = "joined"
  /\ UNCHANGED <<clientsKept, launch, wg, userW, pOut>>

NextClients ==
  \/ ClientSpawn
  \/ ClientWait
  \/ \E w \in Threads :
       ClientSetTenantCredentials(w) \/ ClientRequest(w) \/ ClientWorkerExit(w)

SpecClients == InitClients /\ [][NextClients]_vars

Spawned == {w \in Threads : userW[w].kind /= "none"}

\* C28: every spawned worker, of the role, the user and the retry phase, has a
\* client no other worker has; so the credentials a worker's request is sent
\* with are those of the tenant that worker set for the call, whatever the
\* other workers set in the meantime.
C28_ClientsAreNotShared ==
  /\ \A w \in Spawned :
       /\ pOut.handle[w] \in 1..Len(pOut.clients)
       /\ \A v \in Spawned : v /= w => pOut.handle[v] /= pOut.handle[w]
       /\ userW[w].pc = "request" =>
            pOut.clients[pOut.handle[w]].username =
              GetTenantUsername(OperationTenant(userW[w]))
       /\ \A k \in 1..Len(userW[w].log) :
            userW[w].log[k].auth = GetTenantUsername(userW[w].log[k].tenant)

\* Two workers are between the credential switch and the request, for
\* different tenants.
C28_Witness ==
  \E w \in Spawned, v \in Spawned :
    /\ userW[w].pc = "request"
    /\ userW[v].pc = "request"
    /\ OperationTenant(userW[w]) /= OperationTenant(userW[v])

\* ------------------------------------------------- the statistics report
\* The success rate line of PrintStats for one category: it is printed only
\* for a total above zero, as float64(success) / float64(total) * 100 with two
\* decimals, kept here in hundredths of a percent, rounded to the nearest.
SuccessRate_Unguarded(success, total) ==
  [shown |-> TRUE,
   hundredths |-> IF total = 0 THEN 0
                  ELSE GoDiv(2 * success * 10000 + total, 2 * total)]

SuccessRate(success, total) ==
  IF total > 0
  THEN [shown |-> TRUE, hundredths |-> GoDiv(2 * success * 10000 + total, 2 * total)]
  ELSE [shown |-> FALSE, hundredths |-> 0]

NoRates == [printed |-> FALSE, roles |-> [shown |-> FALSE, hundredths |-> 0],
            users |-> [shown |-> FALSE, hundredths |-> 0]]

InitReport ==
  /\ IdleRun
  /\ pIn = <<>>
  /\ pOut = NoRates

reportKept == <<config, retryFailed, pc, ledgerFile, scimFile, csvWriter, fw, fwMutex,
                statsMutex, failedUsers, tasks, launch, wg, resultChan, roleW, userW,
                consumer, report, pIn>>

\* TestStats.IncrementRole(success)
ReportIncrementRole ==
  /\ ~pOut.printed
  /\ stats.TotalRoles <= MaxOps
  /\ \E success \in BOOLEAN : stats' = RoleOutcome(RoleTotal(stats), success)
  /\ UNCHANGED <<reportKept, pOut>>

\* TestStats.IncrementUser(success)
ReportIncrementUser ==
  /\ ~pOut.printed
  /\ stats.TotalUsers <= MaxOps
  /\ \E success \in BOOLEAN : stats' = UserOutcome(UserTotal(stats), success)
  /\ UNCHANGED <<reportKept, pOut>>

\* TestStats.PrintStats: the two rate lines.
ReportPrintStats ==
  /\ ~pOut.printed
  /\ pOut' = [printed |-> TRUE,
              roles |-> SuccessRate(stats.SuccessRoles, stats.TotalRoles),
              users |-> SuccessRate(stats.SuccessUsers, stats.TotalUsers)]
  /\ UNCHANGED <<reportKept, stats>>

NextReport == ReportIncrementRole \/ ReportIncrementUser \/ ReportPrintStats

SpecReport == InitReport /\ [][NextReport]_vars

\* line is the rate of success out of total, to the nearest hundredth of a percent.
IsRate(line, success, total) ==
  /\ line.shown
  /\ 2 * (line.hundredths * total - success * 10000) <= total
  /\ 2 * (success * 10000 - line.hundredths * total) <= total

\* C29 as stated: the report gives, for each category, success / total * 100
\* when total > 0 and a rate of 0 when total = 0.
C29_RateIsZeroWithoutTotal ==
  pOut.printed =>
    /\ IF stats.TotalRoles > 0
       THEN IsRate(pOut.roles, stats.SuccessRoles, stats.TotalRoles)
       ELSE pOut.roles.shown /\ pOut.roles.hundredths = 0
    /\ IF stats.TotalUsers > 0
       THEN IsRate(pOut.users, stats.SuccessUsers, stats.TotalUsers)
       ELSE pOut.users.shown /\ pOut.users.hundredths = 0

\* C29, amended: the report never divides by zero: for each category it gives
\* success / total * 100 when total > 0, and no rate at all when total = 0.
C29_RateOnlyWithTotal ==
  pOut.printed =>
    /\ IF stats.TotalRoles > 0
       THEN IsRate(pOut.roles, stats.SuccessRoles, stats.TotalRoles)
       ELSE ~pOut.roles.shown
    /\ IF stats.TotalUsers > 0
       THEN IsRate(pOut.users, stats.SuccessUsers, stats.TotalUsers)
       ELSE ~pOut.users.shown

\* A report with one user out of three created, 33.33 %, and no role at all.
C29_Witness ==
  /\ pOut.printed
  /\ stats.TotalRoles = 0
  /\ ~pOut.roles.shown
  /\ stats.TotalUsers = 3
  /\ stats.SuccessUsers = 1
  /\ pOut.users = [shown |-> TRUE, hundredths |-> 3333]

\* --------------------------------- a worker with several users and tenants
\* Fresh runs with two users under two tenants each: one worker with both
\* users, or a worker for each.
InitOrder ==
  /\ retryFailed = FALSE
  /\ config \in {[NoOfThreads |-> t, NoOfUsers |-> 2, NoOfTenants |-> 2,
                  UserStartNumber |-> 1, TenantStartNumber |-> 1, RampUpPeriod |-> 1] :
                    t \in 1..MaxThreads}
  /\ ledgerFile = NoFile
  /\ scimFile = NoFile
  /\ pc = "start"
  /\ csvWriter = [state |-> "nil", buf |-> <<>>]
  /\ fw = [state |-> "nil", err |-> FALSE, opened |-> <<>>]
  /\ fwMutex = Nobody
  /\ stats = NewTestStats
  /\ statsMutex = Nobody
  /\ failedUsers = <<>>
  /\ tasks = <<>>
  /\ launch = 0
  /\ wg = 0
  /\ resultChan = NoChan
  /\ roleW = [w \in Threads |-> NoWorker]
  /\ userW = [w \in Threads |-> NoWorker]
  /\ consumer = NoConsumer
  /\ report = NoReport
  /\ pIn = <<>>
  /\ pOut = <<>>

SpecOrder == InitOrder /\ [][NextFresh]_vars

\* (u, t) comes before (u2, t2) in user-major, tenant-minor order.
Before(u, t, u2, t2) == u < u2 \/ (u = u2 /\ t < t2)

\* The Outcomes of worker w that are on the result channel, in channel order.
OnChannel(w) ==
  SelectSeq(resultChan.buf, LAMBDA r : r.ThreadID = w)

\* C30: a user-creation worker attempts the Operations of its range in
\* strictly ascending user-major, tenant-minor order, and its Outcomes are on
\* the result channel in the order of its attempts: those still on the channel
\* are the latest ones it has sent, in the order it attempted them.
C30_WorkerOrder ==
  \A w \in UserWorkers :
    LET wk   == userW[w]
        sent == Reported(wk)
        on   == OnChannel(w)
    IN  /\ \A i \in 1..Len(wk.log), j \in 1..Len(wk.log) :
             i < j => Before(wk.log[i].index, wk.log[i].tenant,
                             wk.log[j].index, wk.log[j].tenant)
        /\ Len(on) <= sent
        /\ \A k \in 1..Len(on) :
             /\ on[k].UserIndex = wk.log[sent - Len(on) + k].index
             /\ on[k].TenantIndex = wk.log[sent - Len(on) + k].tenant

\* The one worker has attempted both users under both tenants; the consumer
\* has taken its first Outcome and the next three are on the channel.
C30_Witness ==
  /\ config.NoOfThreads = 1
  /\ Len(userW[0].log) = 4
  /\ userW[0].log[2].index = 1 /\ userW[0].log[2].tenant = 2
  /\ userW[0].log[3].index = 2 /\ userW[0].log[3].tenant = 1
  /\ Len(resultChan.buf) = 3
  /\ resultChan.buf[1].UserIndex = 1 /\ resultChan.buf[1].TenantIndex = 2
  /\ resultChan.buf[3].UserIndex = 2 /\ resultChan.buf[3].TenantIndex = 2

\* ------------------------------------------- the two phases of a fresh run
\* The user-creation phase has begun: ExecuteUserCreation has made its
\* channel, or a user worker exists.
UserPhaseBegun == resultChan.made \/ UserWorkers /= {}

\* C31: in a fresh run nothing of the user-creation phase exists, and no user
\* Operation has been attempted, until every role worker spawned has attempted
\* all its tenants and returned; and once they all have, the join of
\* ExecuteRoleCreation lets the run go on to the user phase whatever the role
\* Operations returned, never into a fatal end.
C31_UsersAfterRoles ==
  ~retryFailed =>
    /\ (UserPhaseBegun \/ \E w \in Threads : Len(userW[w].log) > 0) =>
         /\ AfterRoleJoin
         /\ \A w \in Threads : roleW[w].pc \in {"none", "done"}
         /\ \A w \in RoleWorkers : Len(roleW[w].log) = RangeSize(roleW[w].task)
    /\ (pc = "roleWait" /\ \A w \in Threads : roleW[w].pc \in {"none", "done"}) =>
         ENABLED RoleWait
    /\ (RoleWorkers /= {}) => pc /= "fatal"

C31_Witness ==
  /\ ~retryFailed
  /\ Cardinality(RoleWorkers) = 2
  /\ \A w \in RoleWorkers : Len(roleW[w].log) = 1 /\ ~roleW[w].log[1].ok
  /\ stats.FailedRoles = 2
  /\ Attempts /= {}

\* ------------------------------- the role phase, increments word by word
\* ExecuteRoleCreation with the increments of IncrementRole taken apart into
\* the load and the store of the counter, the way the machine runs them.
\* pOut[w] is the value worker w has loaded and not yet stored.
InitRoleStats ==
  /\ retryFailed = FALSE
  /\ config \in {[NoOfThreads |-> t, NoOfUsers |-> 0, NoOfTenants |-> n,
                  UserStartNumber |-> 1, TenantStartNumber |-> 3, RampUpPeriod |-> 0] :
                   t \in 1..MaxThreads, n \in 0..(MaxOps + 1)}
  /\ ledgerFile = File(<<LedgerHeader>>)
  /\ scimFile = File(<<>>)
  /\ pc = "roleLoop"
  /\ csvWriter = [state |-> "open", buf |-> <<ScimHeader>>]
  /\ fw = [state |-> "open", err |-> FALSE, opened |-> <<LedgerHeader>>]
  /\ fwMutex = Nobody
  /\ stats = NewTestStats
  /\ statsMutex = Nobody
  /\ failedUsers = <<>>
  /\ tasks = <<>>
  /\ launch = 0
  /\ wg = 0
  /\ resultChan = NoChan
  /\ roleW = [w \in Threads |-> NoWorker]
  /\ userW = [w \in Threads |-> NoWorker]
  /\ consumer = NoConsumer
  /\ report = NoReport
  /\ pIn = <<>>
  /\ pOut = [w \in Threads |-> 0]

roleStatsKept == <<config, retryFailed, pc, ledgerFile, scimFile, csvWriter, fw, fwMutex,
                   failedUsers, tasks, launch, wg, resultChan, userW, consumer, report,
                   pIn>>

\* IncrementRole: ts.TotalRoles++, the load.
IncrementRoleLoadTotal(w) ==
  /\ Running
  /\ roleW[w].pc = "incTotal"
  /\ pOut' = [pOut EXCEPT ![w] = stats.TotalRoles]
  /\ roleW' = [roleW EXCEPT ![w].pc = "storeTotal"]
  /\ UNCHANGED <<roleStatsKept, stats, statsMutex>>

\* IncrementRole: ts.TotalRoles++, the store.
IncrementRoleStoreTotal(w) ==
  /\ Running
  /\ roleW[w].pc = "storeTotal"
  /\ stats' = [stats EXCEPT !.TotalRoles = pOut[w] + 1]
  /\ roleW' = [roleW EXCEPT ![w].pc = "incOutcome"]
  /\ UNCHANGED <<roleStatsKept, statsMutex, pOut>>

\* IncrementRole: ts.SuccessRoles++ or ts.FailedRoles++, the load.
IncrementRoleLoadOutcome(w) ==
  /\ Running
  /\ roleW[w].pc = "incOutcome"
  /\ pOut' = [pOut EXCEPT ![w] = IF roleW[w].result.Success THEN stats.SuccessRoles
                                 ELSE stats.FailedRoles]
  /\ roleW' = [roleW EXCEPT ![w].pc = "storeOutcome"]
  /\ UNCHANGED <<roleStatsKept, stats, statsMutex>>

\* IncrementRole: the store of the success or failed counter, the deferred
\* Unlock, and the worker's step to its next tenant.
IncrementRoleStoreOutcome(w) ==
  /\ Running
  /\ roleW[w].pc = "storeOutcome"
  /\ stats' = IF roleW[w].result.Success
              THEN [stats EXCEPT !.SuccessRoles = pOut[w] + 1]
              ELSE [stats EXCEPT !.FailedRoles = pOut[w] + 1]
  /\ statsMutex' = Nobody
  /\ roleW' = [roleW EXCEPT ![w].t = @ + 1,
                            ![w].pc = IF roleW[w].t + 1 <= roleW[w].task.End
                                      THEN "call" ELSE "exit"]
  /\ UNCHANGED <<roleStatsKept, pOut>>

NextRoleStats ==
  \/ RoleSpawn
  \/ RoleWait
  \/ \E w \in Threads : RoleCall(w)
  \/ \E w \in Threads : RoleIncLock(w)
  \/ \E w \in Threads : IncrementRoleLoadTotal(w)
  \/ \E w \in Threads : IncrementRoleStoreTotal(w)
  \/ \E w \in Threads : IncrementRoleLoadOutcome(w)
  \/ \E w \in Threads : IncrementRoleStoreOutcome(w)
  \/ \E w \in Threads : RoleExit(w)

SpecRoleStats == InitRoleStats /\ [][NextRoleStats]_vars

\* The role Operations that returned with the given result, over all workers.
RoleResults(ok) ==
  UNION {{<<w, i>> : i \in {k \in 1..Len(roleW[w].log) : roleW[w].log[k].ok = ok}} :
           w \in Threads}

\* C32: when ExecuteRoleCreation has returned, TotalRoles is the number of
\* tenants, SuccessRoles the number of role Operations that succeeded and
\* FailedRoles the number that failed, whatever the worker count and the
\* interleaving of the workers' IncrementRole calls.
C32_NoLostRoleUpdate ==
  pc = "userSetup" =>
    /\ stats.TotalRoles = config.NoOfTenants
    /\ stats.SuccessRoles = Cardinality(RoleResults(TRUE))
    /\ stats.FailedRoles = Cardinality(RoleResults(FALSE))

C32_Witness ==
  /\ pc = "userSetup"
  /\ Cardinality(RoleWorkers) = 2
  /\ stats.TotalRoles = 3
  /\ stats.SuccessRoles = 2
  /\ stats.FailedRoles = 1
  /\ \E w \in RoleWorkers : Len(roleW[w].log) = 2

\* ------------------------------------------------ one retry pass after another
\* main with -retry-failed, run again over the ledger the pass before it has
\* left. pIn keeps the number of the pass, the ledger as the pass found it,
\* and what the pass before it loaded and saw fail.
PassNumbers == {1, 2}

InitPasses ==
  /\ InitRun(TRUE)
  /\ config.RampUpPeriod = 1
  /\ ledgerFile = EarlierLedger(1)
  /\ pIn = [pass |-> 1, atStart |-> ledgerFile, loaded |-> 0, failed |-> 0,
            err |-> FALSE]
  /\ pOut = <<>>

\* The process has exited and main is started again with -retry-failed: the
\* two files stay as they are, everything in memory starts anew.
NextPass ==
  /\ pc = "done"
  /\ pIn.pass + 1 \in PassNumbers
  /\ pIn' = [pass |-> pIn.pass + 1, atStart |-> ledgerFile,
             loaded |-> Len(failedUsers), failed |-> Cardinality(FailedAttempts),
             err |-> fw.err]
  /\ pc' = "start"
  /\ csvWriter' = [state |-> "nil", buf |-> <<>>]
  /\ fw' = [state |-> "nil", err |-> FALSE, opened |-> <<>>]
  /\ fwMutex' = Nobody
  /\ stats' = NewTestStats
  /\ statsMutex' = Nobody
  /\ failedUsers' = <<>>
  /\ tasks' = <<>>
  /\ launch' = 0
  /\ wg' = 0
  /\ resultChan' = NoChan
  /\ userW' = [w \in Threads |-> NoWorker]
  /\ consumer' = NoConsumer
  /\ report' = NoReport
  /\ UNCHANGED <<config, retryFailed, ledgerFile, scimFile, roleW, pOut>>

NextPasses == NextRetry \/ NextPass

\* The Go scheduler lets every goroutine that can run do so, and every remote
\* call returns; nothing obliges anyone to start another pass.
SpecPasses == InitPasses /\ [][NextPasses]_vars /\ Fairness

\* The data rows of the ledger as the pass found it.
RowsAtStart == DataRows(pIn.atStart)

\* C33: a retry pass over a ledger of N data rows loads N records once,
\* never attempts more than N Operations however many rows it appends
\* meanwhile, has attempted exactly N at its join, and ends; it removes no
\* row, and when no ledger write failed it leaves the N rows followed by one
\* row per failed attempt, all of which the next pass loads and attempts.
C33_RetryPassSafe ==
  /\ Cardinality(Attempts) <= Len(RowsAtStart)
  /\ resultChan.made => Len(failedUsers) = Len(RowsAtStart)
  /\ AfterRetryJoin /\ resultChan.made => Cardinality(Attempts) = Len(RowsAtStart)
  /\ IsPrefix(pIn.atStart.rows, ledgerFile.rows)
  /\ (pc = "done" /\ resultChan.made /\ ~fw.err) =>
       Len(DataRows(ledgerFile)) = Len(RowsAtStart) + Cardinality(FailedAttempts)
  /\ (pIn.pass > 1 /\ ~pIn.err) => Len(RowsAtStart) = pIn.loaded + pIn.failed

\* C33: the above holds in every state, and a retry pass that has loaded its
\* records ends: it reaches the end of main however many attempts fail.
C33_RetryPassTerminates ==
  /\ []C33_RetryPassSafe
  /\ (pc = "retrySetup") ~> (pc = "done")

C33_Witness ==
  /\ pIn.pass = 2
  /\ pIn.loaded = 1
  /\ pIn.failed = 1
  /\ pc = "done"
  /\ Cardinality(UserWorkers) = 2
  /\ Cardinality(Attempts) = 2
  /\ Cardinality(FailedAttempts) = 1
  /\ Len(DataRows(ledgerFile)) = 3

\* ------------------------------------------------- the result channel
\* C34: main reaches close(resultChan) with the channel still open, the
\* WaitGroup at zero and every spawned worker returned, and it is past that
\* statement whenever the channel is closed, so the channel is closed once;
\* no worker ever sends on the closed channel; and the range loop of
\* processResults has ended only when the channel is closed and drained.
C34_CloseAfterWorkers ==
  /\ pc \in {"userClose", "retryClose"} =>
       /\ resultChan.made
       /\ ~resultChan.closed
       /\ wg = 0
       /\ \A w \in UserWorkers : userW[w].pc = "done"
  /\ resultChan.closed =>
       /\ pc \in {"printStats", "close", "done"}
       /\ \A w \in UserWorkers : userW[w].pc = "done"
  /\ \A w \in Threads : userW[w].pc /= "panic"
  /\ consumer.pc = "exited" => (resultChan.closed /\ Len(resultChan.buf) = 0)

C34_Witness ==
  /\ resultChan.closed
  /\ consumer.pc = "exited"
  /\ Cardinality(UserWorkers) = 2
  /\ consumer.seen[0].n = 1
  /\ consumer.seen[1].n = 1
  /\ pc = "printStats"

\* The Outcomes the phase can produce at most.
MaxOutcomes ==
  IF retryFailed THEN Len(failedUsers) ELSE config.NoOfUsers * config.NoOfTenants

\* C35: the result channel is made with room for every Outcome of the phase,
\* never holds more than that, and a worker that has reached its send can
\* always complete it, whether or not the consumer has taken anything.
C35_SendNeverBlocks ==
  resultChan.made =>
    /\ resultChan.cap = MaxOutcomes
    /\ Len(resultChan.buf) <= resultChan.cap
    /\ TotalDelivered <= resultChan.cap
    /\ \A w \in Threads :
         (Running /\ userW[w].pc = "send") =>
           (~resultChan.closed /\ Len(resultChan.buf) < resultChan.cap)

C35_Witness ==
  /\ resultChan.made
  /\ resultChan.cap = 2
  /\ Len(resultChan.buf) = 2
  /\ consumer.pc = "recv"
  /\ \A w \in Threads : consumer.seen[w].n = 0
  /\ Cardinality(UserWorkers) = 2
  /\ \A w \in UserWorkers : userW[w].pc = "done"

\* ------------------------------------- the two ways to hand out a remainder
\* The range the list gives to owner threadID, if it gives one.
OwnerRanges(ranges, threadID) ==
  {i \in 1..Len(ranges) : ranges[i].ThreadID = threadID}

\* The number of units the list gives to owner threadID.
OwnerSize(ranges, threadID) ==
  IF OwnerRanges(ranges, threadID) = {} THEN 0
  ELSE RangeSize(ranges[CHOOSE i \in OwnerRanges(ranges, threadID) : TRUE])

\* Two lists give every owner the same size, and every owner with a non-empty
\* range the same start and end once the second list is shifted by offset.
SameRanges(a, b, offset, workers) ==
  \A threadID \in 0..(workers - 1) :
    /\ Cardinality(OwnerRanges(a, threadID)) <= 1
    /\ Cardinality(OwnerRanges(b, threadID)) <= 1
    /\ OwnerSize(a, threadID) = OwnerSize(b, threadID)
    /\ OwnerSize(a, threadID) > 0 =>
         LET x == a[CHOOSE i \in OwnerRanges(a, threadID) : TRUE]
             y == b[CHOOSE i \in OwnerRanges(b, threadID) : TRUE]
         IN  x.Start = y.Start + offset /\ x.End = y.End + offset

\* C36: whichever of the three loops has run on a total, a worker count and a
\* start, its ranges are those of the other two: the loop of
\* ExecuteUserCreation, which counts the remainder down, and the loops of
\* ExecuteRoleCreation and ExecuteRetryFailed, which test threadID against the
\* remainder, give every owner the same size and every non-empty range the
\* same start and end (the retry loop counts list positions from 0).
C36_RemainderLoopsAgree ==
  pOut.loop /= "none" =>
    LET user  == UserTasks(pIn.total, pIn.workers, pIn.start)
        role  == RoleRanges(pIn.total, pIn.workers, pIn.start)
        retry == RetryTasks(pIn.total, pIn.workers)
        shift == IF pOut.loop = "retry" THEN 0 ELSE pIn.start
    IN  /\ SameRanges(pOut.ranges, user, shift - pIn.start, pIn.workers)
        /\ SameRanges(pOut.ranges, role, shift - pIn.start, pIn.workers)
        /\ SameRanges(pOut.ranges, retry, shift, pIn.workers)

C36_Witness ==
  /\ pOut.loop = "user"
  /\ pIn.total = 6
  /\ pIn.workers = 4
  /\ pIn.start = 7
  /\ [i \in 1..4 |-> <<pOut.ranges[i].Start, pOut.ranges[i].End>>]
       = << <<7, 8>>, <<9, 10>>, <<11, 11>>, <<12, 12>> >>
  /\ RoleRanges(6, 4, 7)[2].End = 10
  /\ RetryTasks(6, 4)[2].End = 3

\* ------------------------------------------- the ledger before a retry reads it
\* C37: in a retry run NewTestExecutor leaves the ledger file as it is and
\* creates no ledger writer; the append-mode open that follows keeps every
\* row in place, the read changes nothing, and the records it loads are as
\* many as the data rows the file holds.
C37_RetryConstructionKeepsLedger ==
  [][retryFailed =>
       /\ pc = "start" =>
            (ledgerFile' = ledgerFile /\ fw.state = "nil" /\ fw' = fw)
       /\ pc = "retryOpen" =>
            /\ IsPrefix(ledgerFile.rows, ledgerFile'.rows)
            /\ DataRows(ledgerFile') = DataRows(ledgerFile)
       /\ pc = "retryRead" => ledgerFile' = ledgerFile
       /\ (pc = "retryRead" /\ pc' = "retrySetup") =>
            Len(failedUsers') = Len(DataRows(ledgerFile))]_vars

C37_Witness ==
  /\ retryFailed
  /\ pc = "retrySetup"
  /\ fw.state = "open"
  /\ fw.opened = EarlierLedger(2).rows
  /\ ledgerFile = EarlierLedger(2)
  /\ Len(failedUsers) = 2

\* ------------------------------------- reading a ledger with bad tenant IDs
\* First fields strconv.Atoi accepts, with their values, and first fields it
\* rejects; the header names are among the latter.
GoodTenantFields ==
  {[text |-> <<"3">>, val |-> 3], [text |-> <<"1", "2">>, val |-> 12],
   [text |-> <<"+", "5">>, val |-> 5], [text |-> <<"-", "4">>, val |-> -4]}

BadTenantFields ==
  {<<"TenantID">>, <<"Tenant ID">>, <<"tenantid">>, <<"a", "b", "c">>, <<>>,
   <<"1", "x">>, <<" ", "3">>, <<"3", ".", "0">>}

\* Four-field rows with each of those first fields.
TenantRow(first) == <<first, <<"isTestUser", "_", "5">>, ErrorText, Now>>

TenantRows ==
  {TenantRow(g.text) : g \in GoodTenantFields} \cup {TenantRow(b) : b \in BadTenantFields}

InitTenantRows ==
  /\ IdleRun
  /\ pIn \in UNION {[1..n -> TenantRows] : n \in 1..(MaxLedger + 1)}
  /\ pOut = [at |-> "file", read |-> [err |-> FALSE, users |-> <<>>]]

\* readFailedUsersFromCSV of the ledger whose rows are pIn, the first included.
ReadTenantRows ==
  /\ pOut.at = "file"
  /\ pOut' = [at |-> "read", read |-> readFailedUsersFromText(csvWriteAll(pIn))]
  /\ UNCHANGED <<runVars, pIn>>

SpecTenantRows == InitTenantRows /\ [][ReadTenantRows]_vars

\* The rows that are to be returned: those with an integer first field (a
\* first row that starts with a header name is not one of them).
RECURSIVE ValidRows(_, _)
ValidRows(rows, i) ==
  IF i > Len(rows) THEN <<>>
  ELSE (IF \E g \in GoodTenantFields : g.text = rows[i][1] THEN <<i>> ELSE <<>>)
         \o ValidRows(rows, i + 1)

\* C38: readFailedUsersFromCSV of four-field rows returns without error, in
\* file order, exactly the rows whose first field is an integer, each with
\* that integer as its tenant ID; rows with any other first field are left
\* out, and a first row is returned unless it starts with a header name.
C38_BadTenantRowsAreSkipped ==
  pOut.at = "read" =>
    /\ ~pOut.read.err
    /\ LET good == ValidRows(pIn, 1)
       IN  /\ Len(pOut.read.users) = Len(good)
           /\ \A k \in 1..Len(good) :
                LET user == pOut.read.users[k]
                    row  == pIn[good[k]]
                IN  /\ \E g \in GoodTenantFields :
                         g.text = row[1] /\ g.val = user.TenantID
                    /\ <<user.Username, user.Error, user.Timestamp>>
                         = <<row[2], row[3], row[4]>>

C38_Witness ==
  /\ pOut.at = "read"
  /\ pIn = <<TenantRow(<<"-", "4">>), TenantRow(<<"1", "x">>), TenantRow(<<"1", "2">>)>>
  /\ ~pOut.read.err
  /\ Len(pOut.read.users) = 2
  /\ pOut.read.users[1].TenantID = -4
  /\ pOut.read.users[2].TenantID = 12

\* --------------------------------------------- the two triples of counters
RoleCounters(st) == <<st.TotalRoles, st.SuccessRoles, st.FailedRoles>>

UserCounters(st) == <<st.TotalUsers, st.SuccessUsers, st.FailedUsers>>

\* The triple after is the triple before with its total raised by one and
\* exactly one of success and failed raised by one.
OneMore(before, after) ==
  /\ after[1] = before[1] + 1
  /\ \/ (after[2] = before[2] + 1 /\ after[3] = before[3])
     \/ (after[2] = before[2] /\ after[3] = before[3] + 1)

\* C39: a call of IncrementRole leaves the three user counters as they are
\* and raises the role total and exactly one of the role success and failed
\* counters by one; IncrementUser does the same with the categories swapped;
\* PrintStats changes no counter; and nothing else changes a counter.
C39_CountersIndependent ==
  [][/\ ReportIncrementRole =>
          (UserCounters(stats') = UserCounters(stats)
           /\ OneMore(RoleCounters(stats), RoleCounters(stats')))
     /\ ReportIncrementUser =>
          (RoleCounters(stats') = RoleCounters(stats)
           /\ OneMore(UserCounters(stats), UserCounters(stats')))
     /\ ReportPrintStats => stats' = stats
     /\ stats' /= stats => (ReportIncrementRole \/ ReportIncrementUser)]_vars

C39_Witness ==
  /\ pOut.printed
  /\ RoleCounters(stats) = <<2, 1, 1>>
  /\ UserCounters(stats) = <<1, 0, 1>>

====
